---- MODULE Spec2Model ----
(***************************************************************************)
(* A model of rawhide: the NBD server (src/nbd/nbd.go), its start-up and   *)
(* shutdown (src/main.go), the extent layer (package fsys), the XTS cipher *)
(* (package xts) and the file system parsers (src/fsys/part, fat, ext,     *)
(* ntfs).                                                                  *)
(*                                                                         *)
(* Spec       the NBD server with its sessions: exports are registered,    *)
(*            Serve listens and accepts, every accepted connection runs    *)
(*            negotiate and transmit, one handler call per step.           *)
(* SpecServe  Serve against one Close call, statement by statement.        *)
(* SpecExt    ComposeExtents applied to bounded extent lists.              *)
(* SpecChain  chains of ExtentReaderAt built one on another.               *)
(* SpecRead   ExtentReaderAt.ReadAt on bounded extent lists.               *)
(* SpecXts    the cipher: New, Encrypt, Decrypt and their sector forms.    *)
(* SpecXtsIo  xts.ReaderAt and xts.WriterAt over one file.                 *)
(* SpecFree   FreeBlocks of partition tables, FAT and ext volumes.         *)
(* SpecWriter getWriterForReader and a write through its result.           *)
(* SpecFat    the FAT type of a boot sector and the entries read by it.    *)
(* SpecPtr    the extents of an ext inode with block pointers.             *)
(* SpecWalk   the walk of an ext extent tree, call by call.                *)
(* SpecNtfs   the NTFS update sequence fixup under a directory listing.    *)
(* SpecCat    a file read through Open and through its extents.            *)
(***************************************************************************)
EXTENDS Integers, Sequences, FiniteSets, TLC

VARIABLES
    exports,      \* Server.exports: name -> Export
    regOrder,     \* history: the names in the order AddExport accepted them
    image,        \* the bytes behind each export's Reader / Writer
    servePc,      \* where Server.Serve stands
    serveRet,     \* what Serve returned
    lnState,      \* the listening socket: "none", "open", "closed"
    srvListener,  \* the field Server.listener: "nil" or "set"
    done,         \* the channel Server.done is closed
    closePc,      \* where Server.Close stands
    phase,        \* per connection: where handleConnection stands
    export,       \* session.export
    noZeroes,     \* session.noZeroes
    term,         \* per connection: what the last option handled was
    replies,      \* per connection: for each simple reply written, the number
                  \* of the request it answers and its error code
    nreq,         \* per connection: request headers read by transmit
    unread,       \* per connection: bytes the client sent that no handler consumed
    eof,          \* per connection: the client has closed its side
    msgs,         \* options and requests handled so far, all connections
    last,         \* the handler call of the last step, in full
    outer,        \* ComposeExtents: argument
    inner,        \* ComposeExtents: argument
    composed,     \* ComposeExtents: result
    extPc,        \* the extent run: "input" or "composed"
    chain,        \* ExtentReaderAt values, each built on the one before
    rdCall,       \* the last ExtentReaderAt.ReadAt call, in full
    xcipher,      \* the xts.Cipher in use, or the nil cipher
    xstore,       \* the bytes under the XTS reader and writer
    xsize,        \* the size given to NewReaderAt and NewWriterAt
    xplain,       \* history: per sector, the plaintext last written to it
    xcall,        \* the last call into package xts, in full
    fbCall,       \* the last FreeBlocks call, in full
    fsCall,       \* the last call into a file system parser, in full
    gwCall        \* the last getWriterForReader call and the write through
                  \* what it returned, in full

srvVars == <<exports, regOrder, image, servePc, serveRet, lnState, srvListener, done, closePc>>
sessVars == <<phase, export, noZeroes, term, replies, nreq, unread, eof, msgs, last>>
extVars == <<outer, inner, composed, extPc>>
rdVars == <<chain, rdCall>>
xtsVars == <<xcipher, xstore, xsize, xplain, xcall>>
freeVars == <<fbCall, fsCall, gwCall>>
libVars == <<extVars, rdVars, xtsVars, freeVars>>
vars == <<srvVars, sessVars, libVars>>

(***************************************************************************)
(* Bounds of the model.                                                    *)
(***************************************************************************)
MaxConns == 2     \* connections the server accepts
MaxMsgs == 3      \* options and requests the clients send in total
MaxExports == 2   \* exports registered
MaxLen == 2       \* largest request length
ImgSize == 2      \* bytes of an export
OffsetBits == 4   \* width given to the 64-bit request offset

Conns == 1..MaxConns
\* 2^64 of the code: the offset is a uint64 and offset+uint64(length) wraps.
U64 == 2 ^ OffsetBits
\* int64(offset): the upper half of the unsigned range is negative.
Int64(off) == IF off >= U64 \div 2 THEN off - U64 ELSE off

(***************************************************************************)
(* Protocol constants, nbd.go lines 17-61.                                 *)
(***************************************************************************)
nbdFlagHasFlags == 1
nbdFlagReadOnly == 2
nbdFlagSendFlush == 4
nbdFlagSendFUA == 8

nbdOptExportName == 1
nbdOptAbort == 2
nbdOptList == 3
nbdOptGo == 7

\* Option reply types, each a uint32 written <<bit 31, bits 0..30>>:
\* 0x80000001 is <<1, 1>>.
nbdRepAck == <<0, 1>>
nbdRepServer == <<0, 2>>
nbdRepInfo == <<0, 3>>
nbdRepErrUnsup == <<1, 1>>
nbdRepErrUnknown == <<1, 6>>

nbdInfoExport == 0
nbdInfoBlockSize == 3

nbdCmdRead == 0
nbdCmdWrite == 1
nbdCmdDisc == 2
nbdCmdFlush == 3
nbdCmdTrim == 4

nbdErrNone == 0
nbdErrPerm == 1
nbdErrIO == 5
nbdErrInval == 22

defaultBlockSize == 4096
maxBlockSize == 32 * 1024 * 1024

\* Wire size of the request header, nbd.go 392.
RequestHeaderLen == 28

(***************************************************************************)
(* Inputs: what the clients and the environment may choose.                *)
(***************************************************************************)
\* Export names a caller registers, and names a client asks for.
ExportNames == {"a", "b"}
\* The names are interchangeable: the first export registered is called "a".
FirstName == "a"
ClientNames == ExportNames \cup {"zz"}
NameLen(name) == Len(name)
\* The nil *Export.
NoExport == "<nil>"

\* The byte the model's clients write, and what a reader may leave in the part
\* of the buffer it did not fill.
PayByte == 9
JunkByte == 5
\* The image behind an export before any write: byte i is i.
InitImage == [i \in 1..ImgSize |-> i]

Handles == {1, 2}
\* Offsets around the export and at the top of the unsigned range.
Offsets == {0, ImgSize - 1, U64 - 1}
Lengths == 0..MaxLen
\* Option types outside {ExportName, Abort, List, Go}.
OtherOptions == {0, 6}

\* NBD_OPT_GO data: u32 name length, name, u16 count of info requests.  The
\* client may send no data, a name, or a length field that does not fit:
\* nameLen is a uint32 and 4+nameLen wraps at U32Mod.
U32Mod == U64
GoDatas ==
    {[len |-> 0, nameLen |-> 0, name |-> ""]}
    \cup {[len |-> 4 + NameLen(n) + 2, nameLen |-> NameLen(n), name |-> n] : n \in ClientNames}
    \cup {[len |-> 6, nameLen |-> 3, name |-> "a"], [len |-> 6, nameLen |-> U32Mod - 1, name |-> "a"]}

OptionMsgs ==
    {[type |-> nbdOptExportName, data |-> [len |-> NameLen(n), name |-> n]] : n \in ClientNames}
    \cup {[type |-> nbdOptGo, data |-> d] : d \in GoDatas}
    \cup {[type |-> t, data |-> [len |-> 0]] : t \in {nbdOptList, nbdOptAbort} \cup OtherOptions}

\* A WRITE is followed by its payload, whole or cut short by the client
\* closing; offset and length of the other commands are not read.
Payloads(length) ==
    {[i \in 1..k |-> PayByte] : k \in {length} \cup (IF length > 0 THEN {length - 1} ELSE {})}
RequestMsgs ==
    {[cmd |-> nbdCmdRead, handle |-> h, offset |-> o, length |-> l, payload |-> <<>>] :
        h \in Handles, o \in Offsets, l \in Lengths}
    \cup UNION {{[cmd |-> nbdCmdWrite, handle |-> h, offset |-> o, length |-> l, payload |-> p] :
        h \in Handles, o \in Offsets, p \in Payloads(l)} : l \in Lengths}
    \cup {[cmd |-> c, handle |-> h, offset |-> 0, length |-> 0, payload |-> <<>>] :
        h \in Handles, c \in {nbdCmdDisc, nbdCmdFlush, nbdCmdTrim, 9}}

(***************************************************************************)
(* The export table.                                                       *)
(***************************************************************************)
\* A writer built whether or not -rw was given.
RunNbdWriterAlways(rw) == TRUE

\* runNbd, main.go 398-404: the writer handed to serveNbd.  Without -rw it
\* is the nil interface; with -rw it is what getWriterForReader built.
RunNbdWriter(rw) == rw

\* Server.getExport: the export registered under name, or nil.
getExport(name) == IF name \in DOMAIN exports THEN name ELSE NoExport

\* All orderings of a finite set, as sequences.
Orderings(S) ==
    {f \in [1..Cardinality(S) -> S] : \A i, j \in 1..Cardinality(S) : i # j => f[i] # f[j]}
\* Server.listExports ranges over a Go map: the order of the names is any.
listExports == Orderings(DOMAIN exports)

\* Export flags of sendExportInfo and sendOldstyleExportInfo.
ExportFlags(exp) ==
    nbdFlagHasFlags + nbdFlagSendFlush + nbdFlagSendFUA
        + (IF ~exports[exp].writer THEN nbdFlagReadOnly ELSE 0)
\* flags & bit, for a one-bit mask.
HasFlag(flags, bit) == (flags \div bit) % 2 = 1

(***************************************************************************)
(* Frames the server writes.                                               *)
(***************************************************************************)
\* session.sendOptionReply
OptionReply(option, replyType, data) ==
    [kind |-> "optreply", option |-> option, type |-> replyType, data |-> data]
NoData == [len |-> 0]

\* session.sendExportInfo: INFO_EXPORT, INFO_BLOCK_SIZE, ACK; a failed write
\* returns at once.  werr = k > 0: the k-th write fails.
sendExportInfo(exp, option, werr) ==
    LET all == << OptionReply(option, nbdRepInfo,
                     [len |-> 12, info |-> nbdInfoExport, size |-> exports[exp].size,
                      flags |-> ExportFlags(exp)]),
                  OptionReply(option, nbdRepInfo,
                     [len |-> 14, info |-> nbdInfoBlockSize, min |-> 1,
                      pref |-> defaultBlockSize, max |-> maxBlockSize]),
                  OptionReply(option, nbdRepAck, NoData) >>
    IN  [sent |-> IF werr = 0 THEN all ELSE SubSeq(all, 1, werr), err |-> werr # 0]

\* session.sendOldstyleExportInfo: size, flags and, unless the client set
\* NO_ZEROES, 124 zero bytes.
sendOldstyleExportInfo(exp, nz, werr) ==
    [sent |-> << [kind |-> "oldstyle", size |-> exports[exp].size,
                  flags |-> ExportFlags(exp), len |-> IF nz THEN 10 ELSE 134] >>,
     err |-> werr # 0]

\* session.sendReply that leaves the handle field of the reply zero.
sendReplyWithoutHandle(handle, errCode, data) ==
    [kind |-> "reply", error |-> errCode, handle |-> 0, data |-> data]

\* session.sendReply: a simple reply.
sendReply(handle, errCode, data) ==
    [kind |-> "reply", error |-> errCode, handle |-> handle, data |-> data]

(***************************************************************************)
(* session.handleOption.  names is the order listExports returned, nz the  *)
(* session's noZeroes, werr the write that fails (0: none).  The result:   *)
(* done and err as returned, the export the session is left with (nil: the *)
(* field is not assigned), the frames written, and whether the handler     *)
(* panicked.                                                               *)
(***************************************************************************)
\* The name NBD_OPT_GO carries, nbd.go 282-288.  4+nameLen is uint32
\* arithmetic; a slice optData[4:hi] with hi < 4 panics.
GoName(d) ==
    IF d.len >= 4 /\ d.nameLen > 0 /\ (4 + d.nameLen) % U32Mod <= d.len
    THEN IF (4 + d.nameLen) % U32Mod < 4 THEN [panic |-> TRUE, name |-> ""]
         ELSE [panic |-> FALSE, name |-> d.name]
    ELSE [panic |-> FALSE, name |-> ""]

OptResult(dn, er, exp, sent) ==
    [done |-> dn, err |-> er, export |-> exp, sent |-> sent, panic |-> FALSE]

handleOptionExportName(optData, nz, werr) ==
    LET exp == getExport(optData.name)
        r == sendOldstyleExportInfo(exp, nz, werr)
    IN  IF exp = NoExport THEN OptResult(FALSE, TRUE, NoExport, <<>>)
        ELSE OptResult(TRUE, r.err, exp, r.sent)

handleOptionGo(optType, optData, names, werr) ==
    LET g == GoName(optData)
        byName == getExport(g.name)
        exp == IF byName = NoExport /\ g.name = "" /\ Len(names) > 0
               THEN getExport(names[1]) ELSE byName
        r == sendExportInfo(exp, optType, werr)
    IN  IF g.panic THEN [OptResult(FALSE, TRUE, NoExport, <<>>) EXCEPT !.panic = TRUE]
        ELSE IF exp = NoExport
        THEN OptResult(FALSE, FALSE, NoExport, <<OptionReply(optType, nbdRepErrUnknown, NoData)>>)
        ELSE OptResult(~r.err, r.err, exp, r.sent)

handleOptionList(optType, names) ==
    OptResult(FALSE, FALSE, NoExport,
        [i \in 1..Len(names) |->
            OptionReply(optType, nbdRepServer,
                [len |-> 4 + NameLen(names[i]), nameLen |-> NameLen(names[i]), name |-> names[i]])]
        \o <<OptionReply(optType, nbdRepAck, NoData)>>)

\* Abort acknowledged and reported as the end of haggling.
handleOptionAbortDone(optType) ==
    OptResult(TRUE, FALSE, NoExport, <<OptionReply(optType, nbdRepAck, NoData)>>)

handleOptionAbort(optType) ==
    OptResult(FALSE, TRUE, NoExport, <<OptionReply(optType, nbdRepAck, NoData)>>)

\* An unknown option refused and the negotiation given up.
handleOptionDefaultGivesUp(optType) ==
    OptResult(FALSE, TRUE, NoExport, <<OptionReply(optType, nbdRepErrUnsup, NoData)>>)

handleOptionDefault(optType) ==
    OptResult(FALSE, FALSE, NoExport, <<OptionReply(optType, nbdRepErrUnsup, NoData)>>)

handleOption(optType, optData, names, nz, werr) ==
    CASE optType = nbdOptExportName -> handleOptionExportName(optData, nz, werr)
      [] optType = nbdOptGo -> handleOptionGo(optType, optData, names, werr)
      [] optType = nbdOptList -> handleOptionList(optType, names)
      [] optType = nbdOptAbort -> handleOptionAbort(optType)
      [] OTHER -> handleOptionDefault(optType)

(***************************************************************************)
(* The backing reader and writer of an export (io.ReaderAt, io.WriterAt).  *)
(***************************************************************************)
\* What a ReadAt of length bytes may return: all of them; fewer, with EOF,
\* leaving anything in the rest of the buffer; or an error.
ReadOutcomes(length) ==
    {[n |-> length, err |-> "nil", junk |-> 0]}
    \cup {[n |-> k, err |-> "EOF", junk |-> JunkByte] : k \in {length - 1} \ {-1}}
    \cup {[n |-> 0, err |-> "error", junk |-> JunkByte]}
WriteOutcomes == {"nil", "error"}

\* Reader.ReadAt(data, off) on the image of exp.  Every reader of the
\* repository, and os.File, refuses a negative offset.
ReadAt(exp, length, off, ro) ==
    IF off < 0 THEN [n |-> 0, err |-> "error", buf |-> [i \in 1..length |-> 0]]
    ELSE [n |-> ro.n, err |-> ro.err,
          buf |-> [i \in 1..length |-> IF i <= ro.n THEN image[exp][off + i] ELSE ro.junk]]

\* Writer.WriteAt(data, off): the image of exp afterwards, and the error.
WriteAt(exp, data, off, wo) ==
    IF off < 0 \/ wo # "nil" THEN [err |-> "error", img |-> image[exp]]
    ELSE [err |-> "nil",
          img |-> [i \in 1..Len(image[exp]) |->
                      IF i > off /\ i <= off + Len(data) THEN data[i - off] ELSE image[exp][i]]]

(***************************************************************************)
(* The transmission handlers.  Each returns the frames written, the calls  *)
(* made on the reader and the writer, the payload bytes taken from the     *)
(* connection and the image afterwards.                                    *)
(***************************************************************************)
\* offset+uint64(length) > uint64(exp.Size), in uint64 arithmetic.
OutOfRange(exp, offset, length) == (offset + length) % U64 > exports[exp].size

ReqResult(sent, rd, wr, taken, img) ==
    [sent |-> sent, rd |-> rd, wr |-> wr, taken |-> taken, img |-> img]

\* nbd.go 448-451: the bytes past n are zeroed.
ZeroFill(buf, n) == [i \in 1..Len(buf) |-> IF i > n THEN 0 ELSE buf[i]]

\* A failed read that ends nothing and answers nothing.
handleReadSilentOnError(exp, req, ro) ==
    LET r == ReadAt(exp, req.length, Int64(req.offset), ro)
        call == <<[off |-> Int64(req.offset), len |-> req.length, n |-> r.n, err |-> r.err,
                   got |-> SubSeq(r.buf, 1, r.n)]>>
    IN  IF OutOfRange(exp, req.offset, req.length)
        THEN ReqResult(<<sendReply(req.handle, nbdErrInval, <<>>)>>, <<>>, <<>>, 0, image[exp])
        ELSE IF r.err # "nil" /\ r.err # "EOF"
        THEN ReqResult(<<>>, call, <<>>, 0, image[exp])
        ELSE ReqResult(<<sendReply(req.handle, nbdErrNone, ZeroFill(r.buf, r.n))>>,
                       call, <<>>, 0, image[exp])

handleRead(exp, req, ro) ==
    LET r == ReadAt(exp, req.length, Int64(req.offset), ro)
        call == <<[off |-> Int64(req.offset), len |-> req.length, n |-> r.n, err |-> r.err,
                   got |-> SubSeq(r.buf, 1, r.n)]>>
    IN  IF OutOfRange(exp, req.offset, req.length)
        THEN ReqResult(<<sendReply(req.handle, nbdErrInval, <<>>)>>, <<>>, <<>>, 0, image[exp])
        ELSE IF r.err # "nil" /\ r.err # "EOF"
        THEN ReqResult(<<sendReply(req.handle, nbdErrIO, <<>>)>>, call, <<>>, 0, image[exp])
        ELSE ReqResult(<<sendReply(req.handle, nbdErrNone, ZeroFill(r.buf, r.n))>>,
                       call, <<>>, 0, image[exp])

\* io.CopyN(io.Discard, conn, length): takes length bytes, or what there is.
Drain(req) == Len(req.payload)

handleWrite(exp, req, wo) ==
    LET w == WriteAt(exp, req.payload, Int64(req.offset), wo)
        call == <<[off |-> Int64(req.offset), data |-> req.payload, err |-> w.err]>>
    IN  IF ~exports[exp].writer
        THEN ReqResult(<<sendReply(req.handle, nbdErrPerm, <<>>)>>, <<>>, <<>>, Drain(req), image[exp])
        ELSE IF OutOfRange(exp, req.offset, req.length)
        THEN ReqResult(<<sendReply(req.handle, nbdErrInval, <<>>)>>, <<>>, <<>>, Drain(req), image[exp])
        ELSE IF Len(req.payload) < req.length
        THEN ReqResult(<<>>, <<>>, <<>>, Len(req.payload), image[exp])
        ELSE IF w.err # "nil"
        THEN ReqResult(<<sendReply(req.handle, nbdErrIO, <<>>)>>, <<>>, call, req.length, w.img)
        ELSE ReqResult(<<sendReply(req.handle, nbdErrNone, <<>>)>>, <<>>, call, req.length, w.img)

\* The switch of session.transmit, nbd.go 412-427.
dispatch(exp, req, ro, wo) ==
    CASE req.cmd = nbdCmdRead -> handleRead(exp, req, ro)
      [] req.cmd = nbdCmdWrite -> handleWrite(exp, req, wo)
      [] req.cmd = nbdCmdFlush ->
            ReqResult(<<sendReply(req.handle, nbdErrNone, <<>>)>>, <<>>, <<>>, 0, image[exp])
      [] req.cmd = nbdCmdDisc -> ReqResult(<<>>, <<>>, <<>>, 0, image[exp])
      [] req.cmd = nbdCmdTrim ->
            ReqResult(<<sendReply(req.handle, nbdErrNone, <<>>)>>, <<>>, <<>>, 0, image[exp])
      [] OTHER ->
            ReqResult(<<sendReply(req.handle, nbdErrInval, <<>>)>>, <<>>, <<>>, 0, image[exp])

(***************************************************************************)
(* State after NewServer, before any call.                                 *)
(***************************************************************************)
NoStep == [sess |-> 0, op |-> "none"]
\* last holds one handler call: it is read by the properties and dropped
\* (Forget) before anything else happens.
Quiet == last = NoStep

InitSrv ==
    /\ exports = <<>>
    /\ regOrder = <<>>
    /\ image = <<>>
    /\ servePc = "init"
    /\ serveRet = "none"
    /\ lnState = "none"
    /\ srvListener = "nil"
    /\ done = FALSE
    /\ closePc = "init"

InitSess ==
    /\ phase = [s \in Conns |-> "idle"]
    /\ export = [s \in Conns |-> NoExport]
    /\ noZeroes = [s \in Conns |-> FALSE]
    /\ term = [s \in Conns |-> "none"]
    /\ replies = [s \in Conns |-> <<>>]
    /\ nreq = [s \in Conns |-> 0]
    /\ unread = [s \in Conns |-> 0]
    /\ eof = [s \in Conns |-> FALSE]
    /\ msgs = 0
    /\ last = NoStep

InitExtIdle ==
    /\ outer = <<>>
    /\ inner = <<>>
    /\ composed = <<>>
    /\ extPc = "idle"

\* No reader of the extent layer is built.
NoRead == [op |-> "none"]
InitRdIdle ==
    /\ chain = <<>>
    /\ rdCall = NoRead

\* No cipher is built, nothing is stored.
NoCipher == [kind |-> "nil"]
NoCall == [op |-> "none"]
InitXtsIdle ==
    /\ xcipher = NoCipher
    /\ xstore = <<>>
    /\ xsize = 0
    /\ xplain = <<>>
    /\ xcall = NoCall

\* FreeBlocks has not been called.
InitFreeIdle == fbCall = NoCall /\ fsCall = NoCall /\ gwCall = NoCall

Init == InitSrv /\ InitSess /\ InitExtIdle /\ InitRdIdle /\ InitXtsIdle /\ InitFreeIdle

(***************************************************************************)
(* Registration and Serve.                                                 *)
(***************************************************************************)
\* serveNbd, main.go 518-530, with the writer runNbd chose: Server.AddExport
\* refuses a name already registered.
AddExport(name, rw) ==
    /\ servePc = "init"
    /\ closePc = "init"
    /\ regOrder = <<>> => name = FirstName
    /\ Cardinality(DOMAIN exports) < MaxExports
    /\ name \notin DOMAIN exports
    /\ exports' = (name :> [writer |-> RunNbdWriter(rw), size |-> ImgSize, rw |-> rw]) @@ exports
    /\ regOrder' = Append(regOrder, name)
    /\ image' = (name :> InitImage) @@ image
    /\ UNCHANGED <<servePc, serveRet, lnState, srvListener, done, closePc>>
    /\ UNCHANGED <<sessVars, libVars>>

\* Serve, nbd.go 138-140: no exports, no service.
ServeCheck ==
    /\ servePc = "init"
    /\ IF DOMAIN exports = {}
       THEN servePc' = "returned" /\ serveRet' = "error"
       ELSE servePc' = "listen" /\ UNCHANGED serveRet
    /\ UNCHANGED <<exports, regOrder, image, lnState, srvListener, done, closePc>>
    /\ UNCHANGED <<sessVars, libVars>>

\* Serve, nbd.go 143-150: remove a stale socket, listen.  Either may fail.
ServeListen ==
    /\ servePc = "listen"
    /\ \E ok \in BOOLEAN :
          IF ok THEN lnState' = "open" /\ servePc' = "assign" /\ UNCHANGED serveRet
          ELSE servePc' = "returned" /\ serveRet' = "error" /\ UNCHANGED lnState
    /\ UNCHANGED <<exports, regOrder, image, srvListener, done, closePc>>
    /\ UNCHANGED <<sessVars, libVars>>

\* Serve, nbd.go 151-166: s.listener = listener, chmod, logging.
ServeAssign ==
    /\ servePc = "assign"
    /\ srvListener' = "set"
    /\ servePc' = "accept"
    /\ UNCHANGED <<exports, regOrder, image, serveRet, lnState, done, closePc>>
    /\ UNCHANGED <<sessVars, libVars>>

\* Serve, nbd.go 169 and 179: Accept returns a connection, which gets its
\* goroutine.  Connections are numbered in the order they are accepted.
ServeAccept(s) ==
    /\ Quiet
    /\ servePc = "accept"
    /\ lnState = "open"
    /\ phase[s] = "idle"
    /\ \A t \in Conns : t < s => phase[t] # "idle"
    /\ phase' = [phase EXCEPT ![s] = "greet"]
    /\ UNCHANGED srvVars
    /\ UNCHANGED <<export, noZeroes, term, replies, nreq, unread, eof, msgs, last>>
    /\ UNCHANGED libVars

\* Serve, nbd.go 170-177: Accept fails, because the listener is closed or
\* for a passing reason; Serve returns if done is closed and tries again
\* if not.
AcceptFailed ==
    /\ Quiet
    /\ servePc = "accept"
    /\ IF done THEN servePc' = "returned" /\ serveRet' = "nil"
       ELSE UNCHANGED <<servePc, serveRet>>
    /\ UNCHANGED <<exports, regOrder, image, lnState, srvListener, done, closePc>>
    /\ UNCHANGED <<sessVars, libVars>>

ServeAcceptClosed == lnState = "closed" /\ AcceptFailed
ServeAcceptError == lnState = "open" /\ AcceptFailed

(***************************************************************************)
(* Server.Close, called once by the signal goroutine serveNbd starts after *)
(* AddExport (main.go 532-539).                                            *)
(***************************************************************************)
\* nbd.go 185: close(s.done)
CloseDone ==
    /\ closePc = "init"
    /\ DOMAIN exports # {}
    /\ done' = TRUE
    /\ closePc' = "listener"
    /\ UNCHANGED <<exports, regOrder, image, servePc, serveRet, lnState, srvListener>>
    /\ UNCHANGED <<sessVars, libVars>>

\* nbd.go 187-189: if s.listener != nil, close it.  The read of s.listener
\* is not ordered with the write in Serve: it may see the listener or nil.
CloseListener ==
    /\ closePc = "listener"
    /\ \E seen \in {"nil", srvListener} :
          IF seen = "set" THEN lnState' = "closed" ELSE UNCHANGED lnState
    /\ closePc' = "remove"
    /\ UNCHANGED <<exports, regOrder, image, servePc, serveRet, srvListener, done>>
    /\ UNCHANGED <<sessVars, libVars>>

\* nbd.go 191-192: remove the socket path, return.
CloseRemove ==
    /\ closePc = "remove"
    /\ closePc' = "returned"
    /\ UNCHANGED <<exports, regOrder, image, servePc, serveRet, lnState, srvListener, done>>
    /\ UNCHANGED <<sessVars, libVars>>

(***************************************************************************)
(* A connection: Server.handleConnection, one blocking read per step.      *)
(***************************************************************************)
\* A reply written ahead of what the connection already carries.
WrittenAhead(before, frames, req) ==
    [i \in 1..Len(SelectSeq(frames, LAMBDA f : f.kind = "reply")) |->
        [req |-> req, error |-> SelectSeq(frames, LAMBDA f : f.kind = "reply")[i].error]]
    \o before

\* The simple replies among the frames a handler wrote.
SimpleReplies(frames) == SelectSeq(frames, LAMBDA f : f.kind = "reply")

\* sendReply writes to the connection: the reply for request req follows
\* what was written before.  Of each reply the request it answers and its
\* error code are kept.
Written(before, frames, req) ==
    before \o [i \in 1..Len(SimpleReplies(frames)) |->
                  [req |-> req, error |-> SimpleReplies(frames)[i].error]]

\* What the last option of a session was: Abort; ExportName or Go when it
\* bound an export and was answered, which ends haggling; an option the
\* server does not support; any other.
Terminating(m, r) ==
    CASE m.type = nbdOptAbort -> "Abort"
      [] m.type = nbdOptExportName /\ r.done /\ ~r.err -> "ExportName"
      [] m.type = nbdOptGo /\ r.done /\ ~r.err -> "Go"
      [] m.type \notin {nbdOptExportName, nbdOptGo, nbdOptList} -> "unsupported"
      [] OTHER -> "other"

\* Client flags: FIXED_NEWSTYLE, with or without NO_ZEROES.
ClientFlags == {1, 3}
nbdFlagCNoZeroes == 2

\* handleConnection returns (negotiate failed, or transmit returned): the
\* connection is closed and the session object is garbage.
Ended(s) ==
    /\ phase' = [phase EXCEPT ![s] = "closed"]
    /\ export' = [export EXCEPT ![s] = NoExport]
    /\ noZeroes' = [noZeroes EXCEPT ![s] = FALSE]
    /\ replies' = [replies EXCEPT ![s] = <<>>]
    /\ nreq' = [nreq EXCEPT ![s] = 0]
    /\ unread' = [unread EXCEPT ![s] = 0]
    /\ eof' = [eof EXCEPT ![s] = FALSE]

\* negotiate, nbd.go 219-236: send the greeting, read the client flags.
\* The write or the read may fail.
NegotiateHello(s) ==
    /\ Quiet
    /\ servePc # "panic"
    /\ phase[s] = "greet"
    /\ \E ev \in {"werr", "eof", "flags"} :
          IF ev = "flags"
          THEN \E fl \in ClientFlags :
                 /\ noZeroes' = [noZeroes EXCEPT ![s] = HasFlag(fl, nbdFlagCNoZeroes)]
                 /\ phase' = [phase EXCEPT ![s] = "haggle"]
                 /\ UNCHANGED <<export, replies, nreq, unread, eof>>
          ELSE Ended(s)
    /\ UNCHANGED <<term, msgs, last>>
    /\ UNCHANGED <<srvVars, libVars>>

\* negotiate, nbd.go 239-258: the option header cannot be read, or its
\* magic is not IHAVEOPT, or its data cannot be read.
HaggleFail(s) ==
    /\ Quiet
    /\ servePc # "panic"
    /\ phase[s] = "haggle"
    /\ Ended(s)
    /\ UNCHANGED <<term, msgs, last>>
    /\ UNCHANGED <<srvVars, libVars>>

\* negotiate, nbd.go 239-267: one option is read and handled.  A panic in
\* the handler's goroutine ends the process.
Haggle(s) ==
    /\ Quiet
    /\ servePc # "panic"
    /\ phase[s] = "haggle"
    /\ msgs < MaxMsgs
    /\ \E m \in OptionMsgs, names \in listExports, werr \in 0..3 :
          LET r == handleOption(m.type, m.data, names, noZeroes[s], werr) IN
          /\ werr > 0 => /\ m.type \in {nbdOptExportName, nbdOptGo}
                         /\ werr <= (IF m.type = nbdOptGo THEN 3 ELSE 1)
          /\ last' = [sess |-> s, op |-> "option", msg |-> m, names |-> names,
                      done |-> r.done, err |-> r.err, exp |-> r.export,
                      sent |-> r.sent, prev |-> term[s]]
          /\ term' = [term EXCEPT ![s] = Terminating(m, r)]
          /\ IF r.panic
             THEN /\ servePc' = "panic"
                  /\ UNCHANGED <<phase, export, noZeroes, replies, nreq, unread, eof>>
             ELSE /\ UNCHANGED servePc
                  /\ IF r.err THEN Ended(s)
                     ELSE /\ phase' = [phase EXCEPT ![s] = IF r.done THEN "transmit" ELSE @]
                          /\ export' = IF r.export # NoExport
                                       THEN [export EXCEPT ![s] = r.export] ELSE export
                          /\ UNCHANGED <<noZeroes, replies, nreq, unread, eof>>
    /\ msgs' = msgs + 1
    /\ UNCHANGED <<exports, regOrder, image, serveRet, lnState, srvListener, done, closePc>>
    /\ UNCHANGED libVars

\* transmit, nbd.go 398-405: the header cannot be read (the client closed),
\* or what is read as a header does not start with the request magic, as
\* when payload bytes were left unread.
TransmitFail(s) ==
    /\ Quiet
    /\ servePc # "panic"
    /\ phase[s] = "transmit"
    /\ Ended(s)
    /\ UNCHANGED <<term, msgs, last>>
    /\ UNCHANGED <<srvVars, libVars>>

\* transmit, nbd.go 397-428: one request header is read and dispatched.
\* The header is a request only if the handlers before it left nothing of
\* their payload unread.
Transmit(s) ==
    /\ Quiet
    /\ servePc # "panic"
    /\ phase[s] = "transmit"
    /\ ~eof[s]
    /\ unread[s] = 0
    /\ msgs < MaxMsgs
    /\ \E m \in RequestMsgs, wo \in WriteOutcomes :
        \E ro \in ReadOutcomes(m.length) :
          LET exp == export[s]
              r == dispatch(exp, m, ro, wo)
          IN
          /\ m.cmd # nbdCmdRead => ro.err = "nil"
          /\ m.cmd # nbdCmdWrite => wo = "nil"
          /\ last' = [sess |-> s, op |-> "request", msg |-> m, exp |-> exp,
                      sent |-> r.sent, rd |-> r.rd, wr |-> r.wr,
                      consumed |-> RequestHeaderLen + r.taken,
                      reqno |-> nreq[s] + 1, before |-> replies[s],
                      after |-> Written(replies[s], r.sent, nreq[s] + 1)]
          /\ image' = [image EXCEPT ![exp] = r.img]
          /\ IF m.cmd = nbdCmdDisc THEN Ended(s)
             ELSE /\ replies' = [replies EXCEPT ![s] = Written(@, r.sent, nreq[s] + 1)]
                  /\ unread' = [unread EXCEPT ![s] = Len(m.payload) - r.taken]
                  /\ eof' = [eof EXCEPT ![s] = m.cmd = nbdCmdWrite /\ Len(m.payload) < m.length]
                  /\ nreq' = [nreq EXCEPT ![s] = @ + 1]
                  /\ UNCHANGED <<phase, export, noZeroes>>
    /\ msgs' = msgs + 1
    /\ UNCHANGED term
    /\ UNCHANGED <<exports, regOrder, servePc, serveRet, lnState, srvListener, done, closePc>>
    /\ UNCHANGED libVars

Forget ==
    /\ ~Quiet
    /\ last' = NoStep
    /\ UNCHANGED <<phase, export, noZeroes, term, replies, nreq, unread, eof, msgs>>
    /\ UNCHANGED <<srvVars, libVars>>

(***************************************************************************)
(* The server with its sessions.  No signal arrives: Close is taken up in  *)
(* SpecServe.                                                              *)
(***************************************************************************)
Next ==
    \/ \E name \in ExportNames, rw \in BOOLEAN : AddExport(name, rw)
    \/ ServeCheck
    \/ ServeListen
    \/ ServeAssign
    \/ ServeAcceptError
    \/ \E s \in Conns : ServeAccept(s)
    \/ \E s \in Conns : NegotiateHello(s)
    \/ \E s \in Conns : HaggleFail(s)
    \/ \E s \in Conns : Haggle(s)
    \/ \E s \in Conns : TransmitFail(s)
    \/ \E s \in Conns : Transmit(s)
    \/ Forget

Spec == Init /\ [][Next]_vars

(***************************************************************************)
(* Serve against Close.  The sessions Serve starts run on their own and    *)
(* touch nothing Serve or Close read: their steps are left out here.       *)
(* Serve's and Close's own statements always get to run; a client          *)
(* connecting, a passing Accept error and the signal may never come.       *)
(***************************************************************************)
NextServe ==
    \/ \E name \in ExportNames, rw \in BOOLEAN : AddExport(name, rw)
    \/ ServeCheck
    \/ ServeListen
    \/ ServeAssign
    \/ \E s \in Conns : ServeAccept(s)
    \/ ServeAcceptClosed
    \/ ServeAcceptError
    \/ CloseDone
    \/ CloseListener
    \/ CloseRemove

SpecServe ==
    /\ Init
    /\ [][NextServe]_vars
    /\ WF_vars(ServeCheck)
    /\ WF_vars(ServeListen)
    /\ WF_vars(ServeAssign)
    /\ WF_vars(ServeAcceptClosed)
    /\ WF_vars(CloseListener)
    /\ WF_vars(CloseRemove)

(***************************************************************************)
(* The extent layer, package fsys.                                         *)
(***************************************************************************)
MaxExtents == 2   \* extents in a list
MaxExtLen == 3    \* longest extent
MaxLogical == 2   \* largest logical offset of an extent

Extent(l, p, n) == [Logical |-> l, Physical |-> p, Length |-> n]

Min(a, b) == IF a < b THEN a ELSE b

\* The first extent of exts covering off (0: none), as the range loops of
\* ComposeExtents and findExtent search.
FindIndex(exts, off) ==
    LET hits == {i \in 1..Len(exts) :
                    off >= exts[i].Logical /\ off < exts[i].Logical + exts[i].Length}
    IN  IF hits = {} THEN 0 ELSE CHOOSE i \in hits : \A j \in hits : i <= j

\* ComposeExtents 141-148: the smallest Logical above innerLogical, -1 if
\* there is none, folded as the loop does.
RECURSIVE NextStartFrom(_, _, _, _)
NextStartFrom(innerExts, k, innerLogical, nextStart) ==
    IF k > Len(innerExts) THEN nextStart
    ELSE NextStartFrom(innerExts, k + 1, innerLogical,
            IF innerExts[k].Logical > innerLogical
               /\ (nextStart < 0 \/ innerExts[k].Logical < nextStart)
            THEN innerExts[k].Logical ELSE nextStart)

\* ComposeWalk with the gap skipped in the inner space only: the composed
\* extents after a hole keep the logical offset of the hole.
RECURSIVE ComposeWalkGapKeepsLogical(_, _, _, _, _)
ComposeWalkGapKeepsLogical(innerExts, remaining, innerLogical, outerLogical, acc) ==
    IF remaining <= 0 THEN acc
    ELSE LET k == FindIndex(innerExts, innerLogical) IN
         IF k # 0
         THEN LET offsetInInner == innerLogical - innerExts[k].Logical
                  useLength == Min(remaining, innerExts[k].Length - offsetInInner)
              IN  ComposeWalkGapKeepsLogical(innerExts, remaining - useLength,
                      innerLogical + useLength, outerLogical + useLength,
                      Append(acc, Extent(outerLogical, innerExts[k].Physical + offsetInInner, useLength)))
         ELSE LET nextStart == NextStartFrom(innerExts, 1, innerLogical, -1)
                  gap == Min(nextStart - innerLogical, remaining)
              IN  IF nextStart < 0 THEN acc
                  ELSE ComposeWalkGapKeepsLogical(innerExts, remaining - gap,
                          innerLogical + gap, outerLogical, acc)

\* ComposeExtents 107-164: the loop over one outer extent.
RECURSIVE ComposeWalk(_, _, _, _, _)
ComposeWalk(innerExts, remaining, innerLogical, outerLogical, acc) ==
    IF remaining <= 0 THEN acc
    ELSE LET k == FindIndex(innerExts, innerLogical) IN
         IF k # 0
         THEN LET offsetInInner == innerLogical - innerExts[k].Logical
                  availableInInner == innerExts[k].Length - offsetInInner
                  useLength == Min(remaining, availableInInner)
              IN  ComposeWalk(innerExts, remaining - useLength, innerLogical + useLength,
                      outerLogical + useLength,
                      Append(acc, Extent(outerLogical, innerExts[k].Physical + offsetInInner, useLength)))
         ELSE LET nextStart == NextStartFrom(innerExts, 1, innerLogical, -1)
                  gap == Min(nextStart - innerLogical, remaining)
              IN  IF nextStart < 0 THEN acc
                  ELSE ComposeWalk(innerExts, remaining - gap, innerLogical + gap,
                          outerLogical + gap, acc)

\* ComposeExtents 96-168
RECURSIVE ComposeFrom(_, _, _, _)
ComposeFrom(outerExts, innerExts, k, acc) ==
    IF k > Len(outerExts) THEN acc
    ELSE ComposeFrom(outerExts, innerExts, k + 1,
            ComposeWalk(innerExts, outerExts[k].Length, outerExts[k].Physical,
                        outerExts[k].Logical, acc))
ComposeExtents(outerExts, innerExts) == ComposeFrom(outerExts, innerExts, 1, <<>>)

\* Extent lists as NewExtentReaderAt keeps them: sorted by Logical.
SortedLists(logicals, physicals) ==
    LET E == {Extent(l, p, n) : l \in logicals, p \in physicals, n \in 0..MaxExtLen}
    IN  UNION {{f \in [1..k -> E] : \A i \in 1..(k - 1) : f[i].Logical <= f[i + 1].Logical}
                  : k \in 0..MaxExtents}

\* Offsets of the middle coordinate space and of the root image.
InnerOffsets == 0..MaxLogical
RootOffsets == {10, 20}

InitExt ==
    /\ InitSrv
    /\ InitSess
    /\ outer \in SortedLists(0..MaxLogical, InnerOffsets)
    /\ inner \in SortedLists(InnerOffsets, RootOffsets)
    /\ composed = <<>>
    /\ extPc = "input"
    /\ InitRdIdle
    /\ InitXtsIdle
    /\ InitFreeIdle

Compose ==
    /\ extPc = "input"
    /\ composed' = ComposeExtents(outer, inner)
    /\ extPc' = "composed"
    /\ UNCHANGED <<outer, inner>>
    /\ UNCHANGED <<srvVars, sessVars, rdVars, xtsVars, freeVars>>

NextExt == Compose

\* ReadAt 194-223: the physical offset a list maps a logical offset to, -1
\* where no extent covers it (the offset reads as zero).
Lookup(exts, off) ==
    LET k == FindIndex(exts, off)
    IN  IF k = 0 THEN -1 ELSE exts[k].Physical + (off - exts[k].Logical)

\* A sorted list whose extents do not overlap in the logical domain.
NonOverlapping(exts) ==
    \A i \in 1..(Len(exts) - 1) : exts[i].Logical + exts[i].Length <= exts[i + 1].Logical

LogicalOffsets == 0..(MaxLogical + MaxExtLen)

SpecExt == InitExt /\ [][NextExt]_vars

(***************************************************************************)
(* ExtentReaderAt: construction and ReadAt.                                *)
(***************************************************************************)
MaxDepth == 3     \* readers in a chain
BaseSize == 4     \* bytes of the base reader

\* The base reader (a file, a bytes.Reader) and the byte it holds at
\* physical offset p: never zero, and different at every offset.
BaseReader == [kind |-> "base"]
BaseByte(p) == p + 1

\* r.(*ExtentReaderAt) succeeds.
IsExtentReaderAt(r) == r.kind = "extent"

\* sort.Slice by Logical: any order of the extents in which Logical does not
\* decrease (the sort is not stable).
SortedByLogical(exts) ==
    {[i \in 1..Len(exts) |-> exts[f[i]]] :
        f \in {g \in [1..Len(exts) -> 1..Len(exts)] :
                  /\ \A i, j \in 1..Len(exts) : i # j => g[i] # g[j]
                  /\ \A i \in 1..(Len(exts) - 1) : exts[g[i]].Logical <= exts[g[i + 1]].Logical}}

\* NewExtentReaderAt that wraps the reader it is given, whatever it is.
NewExtentReaderAtNested(r, sorted, size) ==
    [kind |-> "extent", r |-> r, extents |-> sorted, size |-> size]

\* NewExtentReaderAt, after the sort: on an ExtentReaderAt the mappings are
\* composed and the reader underneath is taken over.
NewExtentReaderAt(r, sorted, size) ==
    IF IsExtentReaderAt(r)
    THEN [kind |-> "extent", r |-> r.r, extents |-> ComposeExtents(sorted, r.extents),
          size |-> size]
    ELSE [kind |-> "extent", r |-> r, extents |-> sorted, size |-> size]

\* ReadAt of the base reader: the bytes there are, EOF when they are fewer
\* than asked for.
BaseReadAt(length, off) ==
    IF off < 0 THEN [n |-> 0, err |-> "error", data |-> <<>>]
    ELSE LET n == IF off >= BaseSize THEN 0 ELSE Min(length, BaseSize - off)
         IN  [n |-> n, err |-> IF n < length THEN "EOF" ELSE "nil",
              data |-> [i \in 1..n |-> BaseByte(off + i - 1)]]

\* A hole taken to run to the end of the reader.
nextExtentStartIsSize(e, off) == e.size

\* ExtentReaderAt.nextExtentStart
nextExtentStart(e, off) ==
    LET later == {i \in 1..Len(e.extents) : e.extents[i].Logical > off}
    IN  IF later = {} THEN e.size
        ELSE e.extents[CHOOSE i \in later : \A j \in later : i <= j].Logical

\* ExtentReaderAt.ReadAt 189-241: the loop and what follows it.  acc is
\* p[:totalRead].  e.r is the base reader.
RECURSIVE ReadAtLoop(_, _, _, _)
ReadAtLoop(e, off, remaining, acc) ==
    IF ~(remaining > 0 /\ off < e.size)
    THEN IF Len(acc) = 0 /\ off >= e.size
         THEN [n |-> 0, err |-> "EOF", data |-> <<>>]
         ELSE [n |-> Len(acc), err |-> "nil", data |-> acc]
    ELSE LET k == FindIndex(e.extents, off) IN
         IF k = 0
         THEN LET gapEnd == Min(nextExtentStart(e, off), e.size)
                  zeroLen == Min(gapEnd - off, remaining)
              IN  ReadAtLoop(e, off + zeroLen, remaining - zeroLen,
                             acc \o [i \in 1..zeroLen |-> 0])
         ELSE LET extentOffset == off - e.extents[k].Logical
                  toRead == Min(e.extents[k].Length - extentOffset, remaining)
                  b == BaseReadAt(toRead, e.extents[k].Physical + extentOffset)
              IN  IF b.err # "nil" /\ b.err # "EOF"
                  THEN [n |-> Len(acc) + b.n, err |-> b.err, data |-> acc \o b.data]
                  ELSE IF b.n < toRead
                  THEN [n |-> Len(acc) + b.n, err |-> "EOF", data |-> acc \o b.data]
                  ELSE ReadAtLoop(e, off + b.n, remaining - b.n, acc \o b.data)

\* ExtentReaderAt.ReadAt(p, off) with len(p) = plen: n, err and p[:n].
ExtentReadAt(e, plen, off) ==
    IF off < 0 THEN [n |-> 0, err |-> "error", data |-> <<>>]
    ELSE IF off >= e.size THEN [n |-> 0, err |-> "EOF", data |-> <<>>]
    ELSE ReadAtLoop(e, off, IF off + plen > e.size THEN e.size - off ELSE plen, <<>>)

\* Extent lists handed to NewExtentReaderAt in a chain, in any order.
ChainExtents == {Extent(l, p, n) : l \in 0..1, p \in 0..1, n \in 1..2}
ChainLists == UNION {[1..k -> ChainExtents] : k \in 0..MaxExtents}
ChainSizes == {2}

\* One more reader, built on the last one (the first on the base reader).
BuildReader ==
    /\ Len(chain) < MaxDepth
    /\ \E exts \in ChainLists, size \in ChainSizes :
          \E sorted \in SortedByLogical(exts) :
              chain' = Append(chain,
                  NewExtentReaderAt(IF chain = <<>> THEN BaseReader ELSE chain[Len(chain)],
                                    sorted, size))
    /\ UNCHANGED rdCall
    /\ UNCHANGED <<srvVars, sessVars, extVars, xtsVars, freeVars>>

NextChain == BuildReader

SpecChain == Init /\ [][NextChain]_vars

\* Readers over the base reader, and the reads made of them.
ReaderSizes == 0..(MaxLogical + MaxExtLen)
ReadOffsets == -1..(MaxLogical + MaxExtLen)
ReadLens == 0..(MaxExtLen + 1)

InitRead ==
    /\ InitSrv
    /\ InitSess
    /\ InitExtIdle
    /\ InitXtsIdle
    /\ InitFreeIdle
    /\ \E exts \in SortedLists(0..MaxLogical, 0..(BaseSize - 1)), size \in ReaderSizes :
          chain = <<NewExtentReaderAt(BaseReader, exts, size)>>
    /\ rdCall = NoRead

ReadAtCall ==
    /\ rdCall = NoRead
    /\ chain # <<>>
    /\ \E off \in ReadOffsets, plen \in ReadLens :
          LET e == chain[Len(chain)]
              r == ExtentReadAt(e, plen, off)
          IN  rdCall' = [op |-> "ReadAt", e |-> e, off |-> off, plen |-> plen,
                         n |-> r.n, err |-> r.err, data |-> r.data]
    /\ UNCHANGED chain
    /\ UNCHANGED <<srvVars, sessVars, extVars, xtsVars, freeVars>>

NextRead == ReadAtCall

SpecRead == InitRead /\ [][NextRead]_vars

(***************************************************************************)
(* Package xts.  Bytes have ByteBits bits and a cipher block has BlockLen  *)
(* bytes (16 in the code); the 64-bit tweak is the low half of a block.    *)
(***************************************************************************)
ByteBits == 2     \* bits of a byte
BlockLen == 2     \* bytes of a cipher block
MaxPlain == 4     \* longest buffer handed to the cipher

ByteMod == 2 ^ ByteBits
Bytes == 0..(ByteMod - 1)
BlockMod == ByteMod ^ BlockLen
\* uint64 arithmetic on sector numbers, at the width of the tweak.
TweakMod == ByteMod ^ (BlockLen \div 2)

\* a ^ b on bytes.
RECURSIVE XorBits(_, _, _)
XorBits(a, b, bits) ==
    IF bits = 0 THEN 0
    ELSE ((a + b) % 2) + 2 * XorBits(a \div 2, b \div 2, bits - 1)

\* xorBlock: b ^= x, byte by byte.
xorBlock(b, x) == [i \in 1..BlockLen |-> XorBits(b[i], x[i], ByteBits)]

\* A block as a little-endian number, and back.
RECURSIVE BlockToInt(_, _)
BlockToInt(b, i) == IF i > Len(b) THEN 0 ELSE b[i] + ByteMod * BlockToInt(b, i + 1)
IntToBlock(v) == [i \in 1..BlockLen |-> (v \div (ByteMod ^ (i - 1))) % ByteMod]

\* cipher.Block of crypto/aes under key k: a keyed permutation of the
\* blocks, and its inverse.
AesEncrypt(k, b) == IntToBlock((BlockToInt(b, 1) + k) % BlockMod)
AesDecrypt(k, b) == IntToBlock((BlockToInt(b, 1) + BlockMod - k) % BlockMod)

\* The reduction polynomial gfMul folds into the first byte (0x87).
gfPoly == 3

\* gfMul: b shifted left by one bit across its bytes, reduced on carry out.
RECURSIVE gfShift(_, _, _)
gfShift(b, i, carry) ==
    IF i > BlockLen THEN <<b, carry>>
    ELSE gfShift([b EXCEPT ![i] = ((2 * b[i]) % ByteMod) + carry], i + 1,
                 b[i] \div (ByteMod \div 2))
gfMul(b) ==
    LET r == gfShift(b, 1, 0)
    IN  IF r[2] # 0 THEN [r[1] EXCEPT ![1] = XorBits(@, gfPoly, ByteBits)] ELSE r[1]

\* binary.LittleEndian.PutUint64(tweakBuf[:8], tweak): the upper half of
\* the block is zero.
TweakBlock(tweak) == IntToBlock(tweak % TweakMod)

\* Cipher.process 91-110: the whole blocks of data, one after the other;
\* bytes past the last whole block are left as they are.
RECURSIVE processBlocks(_, _, _, _, _)
processBlocks(c, data, i, T, decrypt) ==
    IF i >= Len(data) \div BlockLen THEN data
    ELSE LET block == SubSeq(data, i * BlockLen + 1, (i + 1) * BlockLen)
             x == xorBlock(block, T)
             y == IF decrypt THEN AesDecrypt(c.k1, x) ELSE AesEncrypt(c.k1, x)
             out == xorBlock(y, T)
         IN  processBlocks(c,
                 [j \in 1..Len(data) |->
                     IF j > i * BlockLen /\ j <= (i + 1) * BlockLen
                     THEN out[j - i * BlockLen] ELSE data[j]],
                 i + 1, gfMul(T), decrypt)

\* Cipher.process that never takes the decrypting branch.
processAlwaysEncrypts(c, data, tweak, decrypt) ==
    processBlocks(c, data, 0, AesEncrypt(c.k2, TweakBlock(tweak)), FALSE)

\* Cipher.process
process(c, data, tweak, decrypt) ==
    processBlocks(c, data, 0, AesEncrypt(c.k2, TweakBlock(tweak)), decrypt)

\* xts.New: key is its length and the two halves.
New(key, sectorSize, tweakOffset) ==
    IF key.len # 32 /\ key.len # 48 /\ key.len # 64 THEN [err |-> TRUE, c |-> NoCipher]
    ELSE IF sectorSize < BlockLen THEN [err |-> TRUE, c |-> NoCipher]
    ELSE [err |-> FALSE,
          c |-> [kind |-> "cipher", k1 |-> key.k1, k2 |-> key.k2,
                 sectorSize |-> sectorSize, tweakOffset |-> tweakOffset]]

\* Cipher.EncryptSector with the sector number alone as the tweak.
EncryptSectorWithoutOffset(c, data, sectorNum) ==
    IF Len(data) # c.sectorSize THEN [err |-> TRUE, data |-> data]
    ELSE [err |-> FALSE, data |-> process(c, data, sectorNum % TweakMod, FALSE)]

\* Cipher.EncryptSector and Cipher.DecryptSector: data afterwards.
EncryptSector(c, data, sectorNum) ==
    IF Len(data) # c.sectorSize THEN [err |-> TRUE, data |-> data]
    ELSE [err |-> FALSE, data |-> process(c, data, (sectorNum + c.tweakOffset) % TweakMod, FALSE)]
DecryptSector(c, data, sectorNum) ==
    IF Len(data) # c.sectorSize THEN [err |-> TRUE, data |-> data]
    ELSE [err |-> FALSE, data |-> process(c, data, (sectorNum + c.tweakOffset) % TweakMod, TRUE)]

\* Cipher.Encrypt and Cipher.Decrypt: sector after sector, in place.
RECURSIVE cryptSectors(_, _, _, _, _)
cryptSectors(c, data, startSector, i, decrypt) ==
    IF i >= Len(data) \div c.sectorSize THEN [err |-> FALSE, data |-> data]
    ELSE LET sector == SubSeq(data, i * c.sectorSize + 1, (i + 1) * c.sectorSize)
             r == IF decrypt THEN DecryptSector(c, sector, (startSector + i) % TweakMod)
                  ELSE EncryptSector(c, sector, (startSector + i) % TweakMod)
         IN  IF r.err THEN [err |-> TRUE, data |-> data]
             ELSE cryptSectors(c,
                     [j \in 1..Len(data) |->
                         IF j > i * c.sectorSize /\ j <= (i + 1) * c.sectorSize
                         THEN r.data[j - i * c.sectorSize] ELSE data[j]],
                     startSector, i + 1, decrypt)
Encrypt(c, data, startSector) ==
    IF Len(data) % c.sectorSize # 0 THEN [err |-> TRUE, data |-> data]
    ELSE cryptSectors(c, data, startSector, 0, FALSE)
Decrypt(c, data, startSector) ==
    IF Len(data) % c.sectorSize # 0 THEN [err |-> TRUE, data |-> data]
    ELSE cryptSectors(c, data, startSector, 0, TRUE)

\* Inputs of the cipher: keys, sector sizes, sector numbers, buffers.
KeyLens == {16, 32, 48, 64, 128}
KeyHalves == {1, 2}
Keys == {[len |-> n, k1 |-> a, k2 |-> b] : n \in KeyLens, a \in KeyHalves, b \in KeyHalves}
SectorSizes == (BlockLen - 1)..(2 * BlockLen)
SectorNums == 0..(TweakMod - 1)
Buffers == UNION {[1..n -> Bytes] : n \in 0..MaxPlain}

\* xts.New is called.
XtsNew ==
    /\ xcipher = NoCipher
    /\ xcall = NoCall
    /\ \E key \in Keys, sectorSize \in SectorSizes, tweakOffset \in SectorNums :
          LET r == New(key, sectorSize, tweakOffset)
          IN  /\ xcipher' = r.c
              /\ xcall' = [op |-> "New", key |-> key, sectorSize |-> sectorSize,
                           tweakOffset |-> tweakOffset, err |-> r.err]
    /\ UNCHANGED <<xstore, xsize, xplain>>
    /\ UNCHANGED <<srvVars, sessVars, extVars, rdVars, freeVars>>

\* The caller drops what the last call returned.
XtsForget ==
    /\ xcall # NoCall
    /\ xcall' = NoCall
    /\ UNCHANGED <<xcipher, xstore, xsize, xplain>>
    /\ UNCHANGED <<srvVars, sessVars, extVars, rdVars, freeVars>>

\* Encrypt, then Decrypt of what it left in the buffer.
XtsEncryptDecrypt ==
    /\ xcipher # NoCipher
    /\ xcall = NoCall
    /\ \E P \in Buffers, s \in SectorNums :
          LET enc == Encrypt(xcipher, P, s)
              dec == Decrypt(xcipher, enc.data, s)
          IN  xcall' = [op |-> "EncryptDecrypt", P |-> P, s |-> s, encErr |-> enc.err,
                        enc |-> enc.data, decErr |-> dec.err, dec |-> dec.data]
    /\ UNCHANGED <<xcipher, xstore, xsize, xplain>>
    /\ UNCHANGED <<srvVars, sessVars, extVars, rdVars, freeVars>>

\* EncryptSector(P, s) under the key and sector size of the cipher with
\* tweak offset 0, and EncryptSector(P, 0) with tweak offset s.
XtsEncryptSectorPair ==
    /\ xcipher # NoCipher
    /\ xcall = NoCall
    /\ \E P \in Buffers, s \in SectorNums :
          LET c0 == [xcipher EXCEPT !.tweakOffset = 0]
              cs == [xcipher EXCEPT !.tweakOffset = s]
              a == EncryptSector(c0, P, s)
              b == EncryptSector(cs, P, 0)
          IN  xcall' = [op |-> "EncryptSectorPair", P |-> P, s |-> s,
                        errA |-> a.err, outA |-> a.data, errB |-> b.err, outB |-> b.data]
    /\ UNCHANGED <<xcipher, xstore, xsize, xplain>>
    /\ UNCHANGED <<srvVars, sessVars, extVars, rdVars, freeVars>>

NextXts ==
    \/ XtsNew
    \/ XtsForget
    \/ XtsEncryptDecrypt
    \/ XtsEncryptSectorPair

SpecXts == Init /\ [][NextXts]_vars

(***************************************************************************)
(* xts.ReaderAt and xts.WriterAt over one backing store, a file: a read    *)
(* past its end is short with io.EOF, a write past its end extends it.     *)
(***************************************************************************)
StoreMax == 4     \* largest size of the encrypted image

\* What an io.ReaderAt may return for a buffer of length n at offset off
\* over these bytes: all of it, or less of it with an error.
WrappedReads(store, n, off) ==
    LET have == Min(n, IF Len(store) > off THEN Len(store) - off ELSE 0)
    IN  {[n |-> k, err |-> e] : k \in 0..have, e \in {"nil", "EOF", "error"}}
          \ {[n |-> k, err |-> "nil"] : k \in 0..(n - 1)}

\* The read of the file itself.
StoreReadAt(store, n, off) ==
    LET have == Min(n, IF Len(store) > off THEN Len(store) - off ELSE 0)
    IN  [n |-> have, err |-> IF have < n THEN "EOF" ELSE "nil"]

\* ReaderAt.ReadAt for a buffer of length plen; under is what x.r.ReadAt
\* returned for the aligned range.  data is what was copied into p.
XtsAligned(x, plen, off) ==
    LET sectorSize == x.cipher.sectorSize
        startSector == off \div sectorSize
        endOffset == Min(off + plen, x.size)
        endSector == (endOffset + sectorSize - 1) \div sectorSize
    IN  [start |-> startSector * sectorSize, len |-> (endSector - startSector) * sectorSize]
XtsReadAt(x, store, plen, off, under) ==
    IF off < 0 THEN [n |-> 0, err |-> "error", data |-> <<>>]
    ELSE IF off >= x.size THEN [n |-> 0, err |-> "EOF", data |-> <<>>]
    ELSE LET sectorSize == x.cipher.sectorSize
             startSector == off \div sectorSize
             alignedStart == XtsAligned(x, plen, off).start
             readN == under.n
             completeSectors == readN \div sectorSize
             decryptLen == completeSectors * sectorSize
             dec == Decrypt(x.cipher, SubSeq(store, alignedStart + 1, alignedStart + decryptLen),
                            startSector % TweakMod)
             offsetInBuf == off - alignedStart
             toCopy == Min(plen, decryptLen - offsetInBuf)
         IN  IF under.err = "error" THEN [n |-> 0, err |-> "error", data |-> <<>>]
             ELSE IF completeSectors = 0
             THEN IF readN > 0 THEN [n |-> 0, err |-> "error", data |-> <<>>]
                  ELSE [n |-> 0, err |-> "EOF", data |-> <<>>]
             ELSE IF dec.err THEN [n |-> 0, err |-> "error", data |-> <<>>]
             ELSE [n |-> toCopy,
                   err |-> IF off + toCopy >= x.size THEN "EOF" ELSE "nil",
                   data |-> SubSeq(dec.data, offsetInBuf + 1, offsetInBuf + toCopy)]

\* The file's WriteAt: the bytes land at off, zeroes fill a hole before it.
StoreWriteAt(store, data, off) ==
    [j \in 1..(IF off + Len(data) > Len(store) THEN off + Len(data) ELSE Len(store)) |->
        IF j > off /\ j <= off + Len(data) THEN data[j - off]
        ELSE IF j <= Len(store) THEN store[j] ELSE 0]

\* WriterAt.WriteAt without the check of the offset's alignment.
XtsWriteAtAnyOffset(x, store, p, off, under) ==
    IF off < 0 THEN [n |-> 0, err |-> "error", store |-> store, p |-> p]
    ELSE IF off >= x.size THEN [n |-> 0, err |-> "ErrShortWrite", store |-> store, p |-> p]
    ELSE LET sectorSize == x.cipher.sectorSize
             writeLen == Min(Len(p), x.size - off)
             enc == Encrypt(x.cipher, SubSeq(p, 1, writeLen), (off \div sectorSize) % TweakMod)
         IN  IF Len(p) % sectorSize # 0 THEN [n |-> 0, err |-> "error", store |-> store, p |-> p]
             ELSE IF enc.err THEN [n |-> 0, err |-> "error", store |-> store, p |-> p]
             ELSE IF under = "error" THEN [n |-> 0, err |-> "error", store |-> store, p |-> p]
             ELSE [n |-> writeLen, err |-> "nil",
                   store |-> StoreWriteAt(store, enc.data, off), p |-> p]

\* WriterAt.WriteAt that encrypts every write as if it began at sector 0.
XtsWriteAtSectorZero(x, store, p, off, under) ==
    IF off < 0 THEN [n |-> 0, err |-> "error", store |-> store, p |-> p]
    ELSE IF off >= x.size THEN [n |-> 0, err |-> "ErrShortWrite", store |-> store, p |-> p]
    ELSE LET sectorSize == x.cipher.sectorSize
             writeLen == Min(Len(p), x.size - off)
             enc == Encrypt(x.cipher, SubSeq(p, 1, writeLen), 0)
         IN  IF off % sectorSize # 0 THEN [n |-> 0, err |-> "error", store |-> store, p |-> p]
             ELSE IF Len(p) % sectorSize # 0 THEN [n |-> 0, err |-> "error", store |-> store, p |-> p]
             ELSE IF enc.err THEN [n |-> 0, err |-> "error", store |-> store, p |-> p]
             ELSE IF under = "error" THEN [n |-> 0, err |-> "error", store |-> store, p |-> p]
             ELSE [n |-> writeLen, err |-> "nil",
                   store |-> StoreWriteAt(store, enc.data, off), p |-> p]

\* WriterAt.WriteAt; under is whether x.w.WriteAt succeeds.  store is the
\* file afterwards and p the caller's buffer afterwards: Encrypt works on
\* the copy.
XtsWriteAt(x, store, p, off, under) ==
    IF off < 0 THEN [n |-> 0, err |-> "error", store |-> store, p |-> p]
    ELSE IF off >= x.size THEN [n |-> 0, err |-> "ErrShortWrite", store |-> store, p |-> p]
    ELSE LET sectorSize == x.cipher.sectorSize
             writeLen == Min(Len(p), x.size - off)
             enc == Encrypt(x.cipher, SubSeq(p, 1, writeLen), (off \div sectorSize) % TweakMod)
         IN  IF off % sectorSize # 0 THEN [n |-> 0, err |-> "error", store |-> store, p |-> p]
             ELSE IF Len(p) % sectorSize # 0 THEN [n |-> 0, err |-> "error", store |-> store, p |-> p]
             ELSE IF enc.err THEN [n |-> 0, err |-> "error", store |-> store, p |-> p]
             ELSE IF under = "error" THEN [n |-> 0, err |-> "error", store |-> store, p |-> p]
             ELSE [n |-> writeLen, err |-> "nil",
                   store |-> StoreWriteAt(store, enc.data, off), p |-> p]

\* The reader and the writer share cipher and size.
XtsWrapper == [cipher |-> xcipher, size |-> xsize]

\* Inputs: the ciphers main builds, image sizes, what clients write.
IoKey == [len |-> 32, k1 |-> 1, k2 |-> 2]
IoCiphers == {New(IoKey, sectorSize, tweakOffset).c :
                 sectorSize \in BlockLen..(BlockLen + 1), tweakOffset \in {0, TweakMod - 1}}
IoSizes == (StoreMax - 1)..StoreMax
WriteBytes == {1, 2}
WriteBuffers == UNION {[1..n -> WriteBytes] : n \in 0..StoreMax}
IoOffsets == -1..StoreMax
Unwritten == <<>>

InitXtsIo ==
    /\ InitSrv
    /\ InitSess
    /\ InitExtIdle
    /\ InitRdIdle
    /\ xcipher \in IoCiphers
    /\ xsize \in IoSizes
    /\ \E n \in IoSizes : xstore = [j \in 1..n |-> 0]
    /\ xplain = [k \in 0..(StoreMax \div BlockLen) |-> Unwritten]
    /\ xcall = NoCall
    /\ InitFreeIdle

\* A client writes through the WriterAt.
XtsWrite ==
    /\ xcall = NoCall
    /\ \E p \in WriteBuffers, off \in IoOffsets, under \in {"nil", "error"} :
          LET r == XtsWriteAt(XtsWrapper, xstore, p, off, under)
              first == off \div xcipher.sectorSize
          IN  /\ xstore' = r.store
              /\ xplain' = [k \in DOMAIN xplain |->
                               IF k >= first /\ (k - first + 1) * xcipher.sectorSize <= r.n
                               THEN SubSeq(p, (k - first) * xcipher.sectorSize + 1,
                                           (k - first + 1) * xcipher.sectorSize)
                               ELSE xplain[k]]
              /\ xcall' = [op |-> "WriteAt", p |-> p, off |-> off, under |-> under,
                           n |-> r.n, err |-> r.err, buf |-> r.p, before |-> xstore]
    /\ UNCHANGED <<xcipher, xsize>>
    /\ UNCHANGED <<srvVars, sessVars, extVars, rdVars, freeVars>>

\* A client reads through the ReaderAt; x.r.ReadAt is asked for the
\* aligned range unless the offset is refused before.
XtsRead ==
    /\ xcall = NoCall
    /\ \E plen \in 0..StoreMax, off \in IoOffsets :
          LET asked == off >= 0 /\ off < xsize
              a == IF asked THEN XtsAligned(XtsWrapper, plen, off) ELSE [start |-> 0, len |-> 0]
          IN  \E under \in IF asked THEN WrappedReads(xstore, a.len, a.start)
                            ELSE {[n |-> 0, err |-> "nil"]} :
                LET r == XtsReadAt(XtsWrapper, xstore, plen, off, under)
                IN  xcall' = [op |-> "ReadAt", plen |-> plen, off |-> off, under |-> under,
                              alignedLen |-> a.len, alignedStart |-> a.start,
                              n |-> r.n, err |-> r.err, data |-> r.data]
    /\ UNCHANGED <<xcipher, xstore, xsize, xplain>>
    /\ UNCHANGED <<srvVars, sessVars, extVars, rdVars, freeVars>>

NextXtsIo ==
    \/ XtsWrite
    \/ XtsRead
    \/ XtsForget

SpecXtsIo == InitXtsIo /\ [][NextXtsIo]_vars

(***************************************************************************)
(* FreeBlocks of the partition table, FAT and ext file systems.  uint64    *)
(* and int64 have LbaBits bits; a sector has SectorLen bytes (512).        *)
(***************************************************************************)
LbaBits == 5        \* bits of uint64 and int64
SectorLen == 2      \* bytes of a sector
MaxParts == 3       \* partition entries of a table
MaxClusters == 4    \* data clusters of a FAT file system
MaxBlocks == 6      \* blocks of an ext file system

LbaMod == 2 ^ LbaBits
\* int64(x) of a uint64, and int64 arithmetic.
ToInt64(x) == IF x >= LbaMod \div 2 THEN x - LbaMod ELSE x
WrapInt64(v) == ((v + LbaMod \div 2) % LbaMod) - LbaMod \div 2

Range(start, end) == [Start |-> start, End |-> end]

\* Partition.StartOffset and Partition.SizeBytes
StartOffset(p) == WrapInt64(ToInt64(p.StartLBA) * SectorLen)
SizeBytes(p) == WrapInt64(ToInt64(p.SizeLBA) * SectorLen)

\* parseMBR: entries <<lbaStart, lbaSize>>; one with a zero is skipped.
RECURSIVE parseMBR(_)
parseMBR(entries) ==
    IF entries = <<>> THEN <<>>
    ELSE LET e == Head(entries)
         IN  IF e[1] = 0 \/ e[2] = 0 THEN parseMBR(Tail(entries))
             ELSE <<[StartLBA |-> e[1], SizeLBA |-> e[2]]>> \o parseMBR(Tail(entries))

\* parseGPT: entries <<startLBA, endLBA>>; SizeLBA is endLBA - startLBA + 1
\* in uint64.
parseGPT(entries) ==
    [i \in 1..Len(entries) |->
        [StartLBA |-> entries[i][1],
         SizeLBA |-> (entries[i][2] + LbaMod - entries[i][1] + 1) % LbaMod]]

\* The sort of usedRanges by start, exchange by exchange.
RECURSIVE sortUsed(_, _, _)
sortUsed(u, i, j) ==
    IF i > Len(u) THEN u
    ELSE IF j > Len(u) THEN sortUsed(u, i + 1, i + 2)
    ELSE sortUsed(IF u[j].start < u[i].start
                  THEN [u EXCEPT ![i] = u[j], ![j] = u[i]] ELSE u, i, j + 1)

\* The reserved area at the start (34 sectors) and the backup at the end
\* (33 sectors) of a GPT disk, in sectors.
gptReserved == 2
gptBackup == 1

\* "Find gaps": the loop over the sorted usedRanges.
RECURSIVE findGaps(_, _, _, _)
findGaps(used, k, currentPos, free) ==
    IF k > Len(used) THEN [free |-> free, currentPos |-> currentPos]
    ELSE findGaps(used, k + 1,
             IF used[k].end > currentPos THEN used[k].end ELSE currentPos,
             IF used[k].start > currentPos
             THEN Append(free, Range(currentPos, used[k].start)) ELSE free)

\* part.FS.FreeBlocks whose last range of a GPT disk runs to the end of the
\* image.
PartFreeBlocksTailToSize(tableType, partitions, size) ==
    LET usedRanges == [i \in 1..Len(partitions) |->
                          [start |-> StartOffset(partitions[i]),
                           end |-> WrapInt64(StartOffset(partitions[i]) + SizeBytes(partitions[i]))]]
        reservedEnd == IF tableType = "MBR" THEN SectorLen ELSE gptReserved * SectorLen
        g == findGaps(sortUsed(usedRanges, 1, 2), 1, reservedEnd, <<>>)
    IN  IF g.currentPos < size
        THEN Append(g.free, Range(g.currentPos, size))
        ELSE g.free

\* part.FS.FreeBlocks
PartFreeBlocks(tableType, partitions, size) ==
    LET usedRanges == [i \in 1..Len(partitions) |->
                          [start |-> StartOffset(partitions[i]),
                           end |-> WrapInt64(StartOffset(partitions[i]) + SizeBytes(partitions[i]))]]
        reservedEnd == IF tableType = "MBR" THEN SectorLen ELSE gptReserved * SectorLen
        g == findGaps(sortUsed(usedRanges, 1, 2), 1, reservedEnd, <<>>)
        endLimit == IF tableType = "GPT" THEN size - gptBackup * SectorLen ELSE size
    IN  IF g.currentPos < size /\ g.currentPos < endLimit
        THEN Append(g.free, Range(g.currentPos, endLimit))
        ELSE g.free

\* The reserved header of a table and the end of what FreeBlocks may
\* return, in bytes.
reservedHeader(tableType) == IF tableType = "MBR" THEN SectorLen ELSE gptReserved * SectorLen
backupTrailer(tableType) == IF tableType = "GPT" THEN gptBackup * SectorLen ELSE 0

\* Sums of Partition.SizeBytes and of Range.Size.
RECURSIVE SumSizeBytes(_)
SumSizeBytes(partitions) ==
    IF partitions = <<>> THEN 0 ELSE SizeBytes(Head(partitions)) + SumSizeBytes(Tail(partitions))
RECURSIVE SumRangeSizes(_)
SumRangeSizes(ranges) ==
    IF ranges = <<>> THEN 0 ELSE (Head(ranges).End - Head(ranges).Start) + SumRangeSizes(Tail(ranges))

\* The partitions have positive sizes, lie between the reserved header and
\* the backup trailer, and no two share a byte.
DisjointInside(tableType, partitions, size) ==
    /\ reservedHeader(tableType) <= size - backupTrailer(tableType)
    /\ \A i \in 1..Len(partitions) :
          /\ SizeBytes(partitions[i]) > 0
          /\ StartOffset(partitions[i]) >= reservedHeader(tableType)
          /\ StartOffset(partitions[i]) + SizeBytes(partitions[i])
                <= size - backupTrailer(tableType)
    /\ \A i, j \in 1..Len(partitions) :
          i # j => \/ StartOffset(partitions[i]) + SizeBytes(partitions[i])
                        <= StartOffset(partitions[j])
                   \/ StartOffset(partitions[j]) + SizeBytes(partitions[j])
                        <= StartOffset(partitions[i])

\* fat.FS.clusterToOffset
clusterToOffset(bpb, cluster) ==
    bpb.firstDataSector * bpb.bytesPerSector
        + (cluster - 2) * bpb.sectorsPerCluster * bpb.bytesPerSector

\* fat.FS.FreeBlocks: the loop over the data clusters; fat[cluster] is the
\* FAT entry, errAt the cluster whose entry cannot be read (0: none).
RECURSIVE fatScan(_, _, _, _, _, _, _)
fatScan(bpb, fat, errAt, cluster, inFreeRange, rangeStart, ranges) ==
    IF cluster >= bpb.countOfClusters + 2
    THEN [err |-> FALSE,
          ranges |-> IF inFreeRange
                     THEN Append(ranges, Range(rangeStart,
                              clusterToOffset(bpb, bpb.countOfClusters + 2 - 1)
                                  + bpb.sectorsPerCluster * bpb.bytesPerSector))
                     ELSE ranges]
    ELSE IF cluster = errAt THEN [err |-> TRUE, ranges |-> <<>>]
    ELSE LET isFree == fat[cluster] = 0
             offset == clusterToOffset(bpb, cluster)
         IN  IF isFree /\ ~inFreeRange
             THEN fatScan(bpb, fat, errAt, cluster + 1, TRUE, offset, ranges)
             ELSE IF ~isFree /\ inFreeRange
             THEN fatScan(bpb, fat, errAt, cluster + 1, FALSE, rangeStart,
                          Append(ranges, Range(rangeStart, offset)))
             ELSE fatScan(bpb, fat, errAt, cluster + 1, inFreeRange, rangeStart, ranges)
FatFreeBlocks(bpb, fat, errAt) == fatScan(bpb, fat, errAt, 2, FALSE, 0, <<>>)

\* ext: mergeRanges
RECURSIVE mergeLoop(_, _, _, _)
mergeLoop(ranges, i, current, merged) ==
    IF i > Len(ranges) THEN Append(merged, current)
    ELSE IF ranges[i].Start = current.End
    THEN mergeLoop(ranges, i + 1, [current EXCEPT !.End = ranges[i].End], merged)
    ELSE mergeLoop(ranges, i + 1, ranges[i], Append(merged, current))
mergeRanges(ranges) ==
    IF Len(ranges) <= 1 THEN ranges ELSE mergeLoop(ranges, 2, ranges[1], <<>>)

\* ext.FS.FreeBlocks: the scan of one group's bitmap (a sequence of bits,
\* 1 allocated); the scan stops where the bitmap ends.
RECURSIVE extScanGroup(_, _, _, _, _, _, _, _)
extScanGroup(bitmap, firstBlock, blocksInGroup, blockSize, i, inFreeRange, rangeStart, ranges) ==
    IF i >= blocksInGroup \/ i >= Len(bitmap)
    THEN IF inFreeRange
         THEN Append(ranges, Range(rangeStart, (firstBlock + blocksInGroup) * blockSize))
         ELSE ranges
    ELSE LET isFree == bitmap[i + 1] = 0
             offset == (firstBlock + i) * blockSize
         IN  IF isFree /\ ~inFreeRange
             THEN extScanGroup(bitmap, firstBlock, blocksInGroup, blockSize, i + 1, TRUE, offset, ranges)
             ELSE IF ~isFree /\ inFreeRange
             THEN extScanGroup(bitmap, firstBlock, blocksInGroup, blockSize, i + 1, FALSE,
                               rangeStart, Append(ranges, Range(rangeStart, offset)))
             ELSE extScanGroup(bitmap, firstBlock, blocksInGroup, blockSize, i + 1,
                               inFreeRange, rangeStart, ranges)

\* The superblock's group count (ext.go 163).
groupCount(sb) ==
    (sb.blocksCount - sb.firstDataBlock + sb.blocksPerGroup - 1) \div sb.blocksPerGroup

\* ext.FS.FreeBlocks: the loop over the block groups, before the merge;
\* errAt is the group whose descriptor or bitmap cannot be read.
RECURSIVE extGroups(_, _, _, _, _, _)
extGroups(sb, blockSize, bitmaps, errAt, group, ranges) ==
    IF group >= groupCount(sb) THEN [err |-> FALSE, ranges |-> ranges]
    ELSE IF group = errAt THEN [err |-> TRUE, ranges |-> <<>>]
    ELSE LET firstBlock == sb.firstDataBlock + group * sb.blocksPerGroup
             blocksInGroup == Min(sb.blocksPerGroup, sb.blocksCount - firstBlock)
         IN  extGroups(sb, blockSize, bitmaps, errAt, group + 1,
                 extScanGroup(bitmaps[group + 1], firstBlock, blocksInGroup, blockSize,
                              0, FALSE, 0, ranges))

\* ext.FS.FreeBlocks
ExtFreeBlocks(sb, blockSize, bitmaps, errAt) ==
    LET r == extGroups(sb, blockSize, bitmaps, errAt, 0, <<>>)
    IN  IF r.err THEN r ELSE [err |-> FALSE, ranges |-> mergeRanges(r.ranges)]

\* Inputs: what the tables on a disk image can hold.
\* An MBR entry holds uint32 LBAs, whose byte offsets never leave int64;
\* a GPT entry holds uint64 LBAs.
Uint32Mod == LbaMod \div (4 * SectorLen)
MbrLbas == 0..(Uint32Mod - 1)
GptLbas == {1, 2, 3, 5, LbaMod \div 4 + 1, LbaMod - 1}
DiskSizes == {(Uint32Mod + 1) * SectorLen, (Uint32Mod + 3) * SectorLen}
MbrTables == UNION {[1..n -> MbrLbas \X MbrLbas] : n \in 0..MaxParts}
GptTables == UNION {[1..n -> GptLbas \X GptLbas] : n \in 0..MaxParts}
FatEntries == {0, 3, 15}
Bpbs == {[firstDataSector |-> 3, bytesPerSector |-> SectorLen, sectorsPerCluster |-> c,
          countOfClusters |-> n] : c \in 1..2, n \in 0..MaxClusters}
Superblocks == {[blocksCount |-> n, firstDataBlock |-> f, blocksPerGroup |-> g] :
                   n \in 2..MaxBlocks, f \in 0..1, g \in 2..3}
BitmapLens == 2..3

\* part.FS.FreeBlocks is called on an opened MBR table.
FreeBlocksMbr ==
    /\ fbCall = NoCall
    /\ \E entries \in MbrTables, size \in DiskSizes :
          fbCall' = [op |-> "part", tableType |-> "MBR", partitions |-> parseMBR(entries),
                     size |-> size, err |-> FALSE,
                     ranges |-> PartFreeBlocks("MBR", parseMBR(entries), size)]
    /\ UNCHANGED <<srvVars, sessVars, extVars, rdVars, xtsVars, fsCall, gwCall>>

\* part.FS.FreeBlocks is called on an opened GPT.
FreeBlocksGpt ==
    /\ fbCall = NoCall
    /\ \E entries \in GptTables, size \in DiskSizes :
          fbCall' = [op |-> "part", tableType |-> "GPT", partitions |-> parseGPT(entries),
                     size |-> size, err |-> FALSE,
                     ranges |-> PartFreeBlocks("GPT", parseGPT(entries), size)]
    /\ UNCHANGED <<srvVars, sessVars, extVars, rdVars, xtsVars, fsCall, gwCall>>

\* fat.FS.FreeBlocks is called.
FreeBlocksFat ==
    /\ fbCall = NoCall
    /\ \E bpb \in Bpbs :
          \E fat \in [2..(bpb.countOfClusters + 1) -> FatEntries],
             errAt \in {0} \cup 2..(bpb.countOfClusters + 1) :
             LET r == FatFreeBlocks(bpb, fat, errAt)
             IN  fbCall' = [op |-> "fat", bpb |-> bpb, fat |-> fat, errAt |-> errAt,
                            err |-> r.err, ranges |-> r.ranges]
    /\ UNCHANGED <<srvVars, sessVars, extVars, rdVars, xtsVars, fsCall, gwCall>>

\* ext.FS.FreeBlocks is called.
FreeBlocksExt ==
    /\ fbCall = NoCall
    /\ \E sb \in Superblocks, blockSize \in 1..2, bits \in BitmapLens :
          \E bitmaps \in [1..groupCount(sb) -> [1..bits -> {0, 1}]],
             errAt \in -1..(groupCount(sb) - 1) :
             LET r == ExtFreeBlocks(sb, blockSize, bitmaps, errAt)
             IN  fbCall' = [op |-> "ext", sb |-> sb, blockSize |-> blockSize,
                            bitmaps |-> bitmaps, errAt |-> errAt,
                            err |-> r.err, ranges |-> r.ranges]
    /\ UNCHANGED <<srvVars, sessVars, extVars, rdVars, xtsVars, fsCall, gwCall>>

NextFree ==
    \/ FreeBlocksMbr
    \/ FreeBlocksGpt
    \/ FreeBlocksFat
    \/ FreeBlocksExt

SpecFree == Init /\ [][NextFree]_vars

(***************************************************************************)
(* main.go: getWriterForReader, and a write through what it returns.       *)
(***************************************************************************)
\* What a reader chain stands on: an *os.File, or the bytes.Reader that
\* getReaderForPath falls back to.
OsFile == [kind |-> "file"]
MemBuffer == [kind |-> "memory"]

\* xts.NewReaderAt
NewXtsReaderAt(r, cipher, size) == [kind |-> "xts", r |-> r, cipher |-> cipher, size |-> size]

\* The writers: the file re-opened O_RDWR, fsys.NewExtentWriterAt and
\* xts.NewWriterAt.
RwFile == [kind |-> "file"]
NewExtentWriterAt(w, extents, size) ==
    [kind |-> "extent", w |-> w, extents |-> extents, size |-> size]
NewXtsWriterAt(w, cipher, size) == [kind |-> "xts", w |-> w, cipher |-> cipher, size |-> size]

\* 501-503: the extent layer goes back on when the list has extents.
extentLayerIfAny(w, extents, size) ==
    IF Len(extents) > 0 THEN NewExtentWriterAt(w, extents, size) ELSE w

\* getWriterForReader 463-515.  os.OpenFile of the base file's name
\* succeeds.
getWriterForReader(reader) ==
    LET hasXts == reader.kind = "xts"
        afterXts == IF hasXts THEN reader.r ELSE reader
        hasExt == afterXts.kind = "extent"
        extents == IF hasExt THEN afterXts.extents ELSE <<>>
        extentSize == IF hasExt THEN afterXts.size ELSE 0
        current == IF hasExt THEN afterXts.r ELSE afterXts
        withExt == extentLayerIfAny(RwFile, extents, extentSize)
        size == IF hasXts /\ reader.size = 0 THEN extentSize
                ELSE IF hasXts THEN reader.size ELSE 0
    IN  IF current.kind # "file" THEN [err |-> "error", writer |-> NoCall]
        ELSE [err |-> "nil",
              writer |-> IF hasXts THEN NewXtsWriterAt(withExt, reader.cipher, size)
                         ELSE withExt]

\* ExtentWriterAt.WriteAt: the bytes of p go, one extent after another, to
\* the physical offsets the list maps their logical offsets to; the write
\* stops with an error at a logical offset no extent covers, and at size.
RECURSIVE ExtentWriteLoop(_, _, _, _, _)
ExtentWriteLoop(w, file, p, off, written) ==
    IF written = Len(p) THEN [n |-> written, err |-> "nil", file |-> file]
    ELSE IF off + written >= w.size THEN [n |-> written, err |-> "ErrShortWrite", file |-> file]
    ELSE LET k == FindIndex(w.extents, off + written) IN
         IF k = 0 THEN [n |-> written, err |-> "error", file |-> file]
         ELSE ExtentWriteLoop(w,
                  StoreWriteAt(file, <<p[written + 1]>>,
                               w.extents[k].Physical + (off + written - w.extents[k].Logical)),
                  p, off, written + 1)

ExtentWriteAt(w, file, p, off) ==
    IF off < 0 THEN [n |-> 0, err |-> "error", file |-> file]
    ELSE ExtentWriteLoop(w, file, p, off, 0)

\* WriteAt of the writer below an xts.WriterAt: the file, or the
\* ExtentWriterAt on the file.
LowerWriteAt(w, file, p, off) ==
    IF w.kind = "extent" THEN ExtentWriteAt(w, file, p, off)
    ELSE IF off < 0 THEN [n |-> 0, err |-> "error", file |-> file]
    ELSE [n |-> Len(p), err |-> "nil", file |-> StoreWriteAt(file, p, off)]

\* WriteAt of a writer getWriterForReader returned.  xts.WriterAt.WriteAt
\* (writer.go 27-60) checks and encrypts, then hands the ciphertext to the
\* writer below at the same offset and returns what that returns.
WriterWriteAt(w, file, p, off) ==
    IF w.kind # "xts" THEN LowerWriteAt(w, file, p, off)
    ELSE LET x == [cipher |-> w.cipher, size |-> w.size]
             enc == XtsWriteAt(x, <<>>, p, off, "nil")
         IN  IF enc.err # "nil" THEN [n |-> 0, err |-> enc.err, file |-> file]
             ELSE LowerWriteAt(w.w, file, SubSeq(enc.store, off + 1, off + enc.n), off)

\* The base-file offset a reader maps logical offset l to, -1 where it
\* maps it to none: xts.ReaderAt reads the offset it is asked for,
\* ExtentReaderAt the one its list gives.
RECURSIVE MapsTo(_, _)
MapsTo(reader, l) ==
    IF reader.kind = "xts" THEN MapsTo(reader.r, l)
    ELSE IF reader.kind = "extent"
    THEN LET ph == Lookup(reader.extents, l)
         IN  IF ph < 0 THEN -1 ELSE MapsTo(reader.r, ph)
    ELSE l

\* Inputs: the chains main can build, on a file of BaseSize zero bytes.
GwCipher == New(IoKey, BlockLen, 0).c
GwLists == {<<>>, <<Extent(0, 2, 2)>>, <<Extent(0, 1, 1), Extent(2, 3, 1)>>,
            <<Extent(1, 0, 2)>>}
GwSizes == {0, 2, 4}
GwLayer(r) == {NewExtentReaderAt(r, exts, size) : exts \in GwLists, size \in GwSizes}
                 \cup {NewXtsReaderAt(r, GwCipher, size) : size \in GwSizes}
GwBases == {OsFile, MemBuffer}
GwOne == UNION {GwLayer(r) : r \in GwBases}
GwReaders == GwBases \cup GwOne \cup UNION {GwLayer(r) : r \in GwOne}
GwFile == [j \in 1..BaseSize |-> 0]
GwBuffers == UNION {[1..n -> WriteBytes] : n \in 1..2}
GwOffsets == 0..(BaseSize - 1)

\* nbd -rw: the writer for a reader, and one write through it.
GetWriterAndWrite ==
    /\ gwCall = NoCall
    /\ \E reader \in GwReaders, p \in GwBuffers, off \in GwOffsets :
          LET g == getWriterForReader(reader)
              r == IF g.err = "nil" THEN WriterWriteAt(g.writer, GwFile, p, off)
                   ELSE [n |-> 0, err |-> "none", file |-> GwFile]
          IN  gwCall' = [op |-> "getWriterForReader", reader |-> reader, err |-> g.err,
                         writer |-> g.writer, p |-> p, off |-> off,
                         n |-> r.n, werr |-> r.err, file |-> r.file]
    /\ UNCHANGED <<fbCall, fsCall>>
    /\ UNCHANGED <<srvVars, sessVars, extVars, rdVars, xtsVars>>

GwForget ==
    /\ gwCall # NoCall
    /\ gwCall' = NoCall
    /\ UNCHANGED <<fbCall, fsCall>>
    /\ UNCHANGED <<srvVars, sessVars, extVars, rdVars, xtsVars>>

NextWriter == GetWriterAndWrite \/ GwForget

SpecWriter == Init /\ [][NextWriter]_vars

\* The base-file offsets whose byte the recorded write changed.
GwChanged == {j \in 0..(Len(gwCall.file) - 1) :
                 j >= BaseSize \/ gwCall.file[j + 1] # GwFile[j + 1]}

\* The chains getWriterForReader is to accept: an optional XTS layer over
\* an optional extent layer over a file.
GwAccepted(reader) ==
    LET afterXts == IF reader.kind = "xts" THEN reader.r ELSE reader
        afterExt == IF afterXts.kind = "extent" THEN afterXts.r ELSE afterXts
    IN  afterExt.kind = "file"

\* The extent list of a reader's extent layer is empty.
GwEmptyList(reader) ==
    LET afterXts == IF reader.kind = "xts" THEN reader.r ELSE reader
    IN  afterXts.kind = "extent" /\ Len(afterXts.extents) = 0

(***************************************************************************)
(* fat.go: the BPB, the FAT type and the FAT entries, at their real        *)
(* widths.                                                                 *)
(***************************************************************************)
\* binary.LittleEndian.Uint16 of b[off:off+2]; b is indexed from 1.
LeUint16(b, off) == b[off + 1] + 256 * b[off + 2]

\* binary.LittleEndian.Uint32(b[off:off+4]) & 0x0FFFFFFF: the mask is
\* applied to the top byte before the four bytes are put together.
LeUint32Masked28(b, off) ==
    b[off + 1] + 256 * b[off + 2] + 65536 * b[off + 3] + 16777216 * (b[off + 4] % 16)

fat12Limit == 4085
eofFAT12 == 4088          \* 0x0FF8
eofFAT16 == 65528         \* 0xFFF8
eofFAT32 == 268435448     \* 0x0FFFFFF8

\* parseBPB 77-125 on the fields of the boot sector; the uint32 results
\* for headers whose data area lies inside the volume.
parseBPB(h) ==
    LET totalSectors == IF h.totalSectors16 # 0 THEN h.totalSectors16 ELSE h.totalSectors32
        isFAT32 == h.fatSize16 = 0
        fatSize == IF h.fatSize16 # 0 THEN h.fatSize16 ELSE h.fatSize32
        rootDirSectors == ((h.rootEntryCount * 32) + h.bytesPerSector - 1) \div h.bytesPerSector
        firstDataSector == h.reservedSectors + (h.numFATs * fatSize) + rootDirSectors
        dataSectors == totalSectors - firstDataSector
        countOfClusters == dataSectors \div h.sectorsPerCluster
    IN  [bpb |-> [bytesPerSector |-> h.bytesPerSector,
                  sectorsPerCluster |-> h.sectorsPerCluster,
                  reservedSectors |-> h.reservedSectors,
                  firstDataSector |-> firstDataSector,
                  countOfClusters |-> countOfClusters,
                  rootCluster |-> IF isFAT32 THEN h.rootCluster ELSE 0,
                  isFAT32 |-> isFAT32],
         typ |-> IF isFAT32 THEN "FAT32"
                 ELSE IF countOfClusters < fat12Limit THEN "FAT12" ELSE "FAT16"]

\* Open 66-72: the fatTable.
newFatTable(bpb) ==
    [startOffset |-> bpb.reservedSectors * bpb.bytesPerSector,
     isFAT32 |-> bpb.isFAT32,
     isFAT12 |-> bpb.countOfClusters < fat12Limit]

\* fatTable.nextFAT12, nextFAT16, nextFAT32 and next; fat holds the bytes
\* from startOffset on.
nextFAT12(fat, cluster) ==
    LET val == LeUint16(fat, (cluster * 3) \div 2)
    IN  IF cluster % 2 = 0 THEN val % 4096 ELSE val \div 16
nextFAT16(fat, cluster) == LeUint16(fat, cluster * 2)
nextFAT32(fat, cluster) == LeUint32Masked28(fat, cluster * 4)
next(t, fat, cluster) ==
    IF t.isFAT12 THEN nextFAT12(fat, cluster)
    ELSE IF t.isFAT32 THEN nextFAT32(fat, cluster)
    ELSE nextFAT16(fat, cluster)

\* fatTable.isEOF
isEOF(t, cluster) ==
    IF t.isFAT12 THEN cluster >= eofFAT12
    ELSE IF t.isFAT32 THEN cluster >= eofFAT32
    ELSE cluster >= eofFAT16

\* Inputs: boot sectors of a floppy, of FAT16 volumes and of FAT32 volumes
\* large and small, and the first bytes of the FAT.
BootSectors ==
    {h \in [bytesPerSector : {512}, sectorsPerCluster : {1, 8}, reservedSectors : {1, 32},
            numFATs : {2}, rootEntryCount : {0, 512}, totalSectors16 : {0, 2880, 40000},
            totalSectors32 : {4000, 600000}, fatSize16 : {0, 9, 160}, fatSize32 : {8, 600},
            rootCluster : {2}] :
        /\ (h.fatSize16 = 0) = (h.rootEntryCount = 0)
        /\ (h.fatSize16 = 0) = (h.reservedSectors = 32)
        /\ (h.fatSize16 = 0) => h.totalSectors16 = 0
        /\ (h.fatSize16 # 0) => h.fatSize32 = 8 /\ h.totalSectors32 = 4000
        /\ parseBPB(h).bpb.firstDataSector < (IF h.totalSectors16 # 0 THEN h.totalSectors16
                                              ELSE h.totalSectors32)}
FatByteVals == {15, 248, 255}
FatLen == 8
FatTables == [1..FatLen -> FatByteVals]
FatClusters == 0..1

\* fat.Open, then one look at the FAT: next of a cluster and isEOF of what
\* it returned.
FatOpenNext ==
    /\ fsCall = NoCall
    /\ \E h \in BootSectors, fat \in FatTables, cluster \in FatClusters :
          LET fs == parseBPB(h)
              t == newFatTable(fs.bpb)
              val == next(t, fat, cluster)
          IN  fsCall' = [op |-> "fat.next", typ |-> fs.typ,
                         countOfClusters |-> fs.bpb.countOfClusters, fat |-> fat,
                         cluster |-> cluster, val |-> val, eof |-> isEOF(t, val)]
    /\ UNCHANGED <<fbCall, gwCall>>
    /\ UNCHANGED <<srvVars, sessVars, extVars, rdVars, xtsVars>>

FsForget ==
    /\ fsCall # NoCall
    /\ fsCall' = NoCall
    /\ UNCHANGED <<fbCall, gwCall>>
    /\ UNCHANGED <<srvVars, sessVars, extVars, rdVars, xtsVars>>

NextFat == FatOpenNext \/ FsForget

SpecFat == Init /\ [][NextFat]_vars

(***************************************************************************)
(* ext.go: the extents of an inode with block pointers.  The inode has     *)
(* DirectBlocks direct pointers (12 in the code) and a single, a double    *)
(* and a triple indirect pointer; a block holds ExtBlockSize / 4 pointers. *)
(***************************************************************************)
DirectBlocks == 2    \* direct pointers of an inode
ExtBlockSize == 8    \* bytes of a block
DiskBlocks == 3      \* blocks of the device

pointersPerBlock == ExtBlockSize \div 4

\* readBlock: the pointers a block holds; a block past the end of disk
\* reads as zeroes.
PtrBlock(disk, b) ==
    IF b \in DOMAIN disk THEN disk[b] ELSE [i \in 1..pointersPerBlock |-> 0]

\* The closure addBlock 346-371 on its captured variables.
addBlock(st, blockNum) ==
    IF st.remaining <= 0 THEN st
    ELSE LET physOffset == blockNum * ExtBlockSize
             extentLen == Min(ExtBlockSize, st.remaining)
             cur == st.currentExtent
         IN  IF cur # <<>> /\ cur[1].Physical + cur[1].Length = physOffset
             THEN [st EXCEPT !.currentExtent = <<[cur[1] EXCEPT !.Length = @ + extentLen]>>,
                             !.logicalOffset = @ + extentLen,
                             !.remaining = @ - extentLen]
             ELSE [extents |-> st.extents \o cur,
                   currentExtent |-> <<Extent(st.logicalOffset, physOffset, extentLen)>>,
                   logicalOffset |-> st.logicalOffset + extentLen,
                   remaining |-> st.remaining - extentLen]

\* walkIndirectExtents 421-444: the loop from pointer i on; errAt is the
\* block readBlock fails on (0: none).
RECURSIVE walkIndirectFrom(_, _, _, _, _, _)
walkIndirectFrom(disk, errAt, block, level, i, st) ==
    IF i >= pointersPerBlock THEN [err |-> FALSE, st |-> st]
    ELSE LET ptr == PtrBlock(disk, block)[i + 1] IN
         IF ptr = 0 THEN walkIndirectFrom(disk, errAt, block, level, i + 1, st)
         ELSE IF level = 1
         THEN walkIndirectFrom(disk, errAt, block, level, i + 1, addBlock(st, ptr))
         ELSE IF ptr = errAt THEN [err |-> TRUE, st |-> st]
         ELSE LET sub == walkIndirectFrom(disk, errAt, ptr, level - 1, 0, st)
              IN  IF sub.err THEN sub
                  ELSE walkIndirectFrom(disk, errAt, block, level, i + 1, sub.st)

walkIndirectExtents(disk, errAt, block, level, st) ==
    IF block = errAt THEN [err |-> TRUE, st |-> st]
    ELSE walkIndirectFrom(disk, errAt, block, level, 0, st)

\* 374-380: the loop over the direct pointers.
RECURSIVE directLoop(_, _, _, _)
directLoop(ino, blocksNeeded, i, st) ==
    IF ~(i < DirectBlocks /\ st.logicalOffset \div ExtBlockSize < blocksNeeded) THEN st
    ELSE IF ino.direct[i + 1] = 0 THEN directLoop(ino, blocksNeeded, i + 1, st)
    ELSE directLoop(ino, blocksNeeded, i + 1, addBlock(st, ino.direct[i + 1]))

\* 382-410: one indirect pointer of the inode.
indirectStep(disk, errAt, blocksNeeded, block, level, r) ==
    IF r.err THEN r
    ELSE IF r.st.logicalOffset \div ExtBlockSize < blocksNeeded /\ block # 0
    THEN walkIndirectExtents(disk, errAt, block, level, r.st)
    ELSE r

\* getBlockPointerExtents 337-419
getBlockPointerExtents(ino, disk, errAt, fileSize) ==
    LET blocksNeeded == (fileSize + ExtBlockSize - 1) \div ExtBlockSize
        st0 == [extents |-> <<>>, currentExtent |-> <<>>, logicalOffset |-> 0,
                remaining |-> fileSize]
        d == [err |-> FALSE, st |-> directLoop(ino, blocksNeeded, 0, st0)]
        s == indirectStep(disk, errAt, blocksNeeded, ino.ind, 1, d)
        dd == indirectStep(disk, errAt, blocksNeeded, ino.dind, 2, s)
        t == indirectStep(disk, errAt, blocksNeeded, ino.tind, 3, dd)
    IN  IF t.err THEN [err |-> TRUE, extents |-> <<>>]
        ELSE [err |-> FALSE, extents |-> t.st.extents \o t.st.currentExtent]

\* The pointer an inode holds for logical block index k, 0 where it holds
\* none: the slot of the indirect block at level, idx blocks into its span.
RECURSIVE PtrUnder(_, _, _, _)
PtrUnder(disk, block, level, idx) ==
    IF block = 0 THEN 0
    ELSE IF level = 1 THEN PtrBlock(disk, block)[idx + 1]
    ELSE LET span == pointersPerBlock ^ (level - 1)
         IN  PtrUnder(disk, PtrBlock(disk, block)[(idx \div span) + 1], level - 1, idx % span)

PtrAt(ino, disk, k) ==
    LET p1 == pointersPerBlock
        p2 == pointersPerBlock * pointersPerBlock
    IN  IF k < DirectBlocks THEN ino.direct[k + 1]
        ELSE IF k < DirectBlocks + p1 THEN PtrUnder(disk, ino.ind, 1, k - DirectBlocks)
        ELSE IF k < DirectBlocks + p1 + p2
        THEN PtrUnder(disk, ino.dind, 2, k - DirectBlocks - p1)
        ELSE PtrUnder(disk, ino.tind, 3, k - DirectBlocks - p1 - p2)

\* Inputs: inodes, the pointer blocks of the disk and file sizes.
BlockNums == 0..DiskBlocks
PtrInodes == [direct : [1..DirectBlocks -> BlockNums], ind : {0, 2}, dind : {0, 3},
              tind : {0, 3}]
PtrDisks == [2..DiskBlocks -> [1..pointersPerBlock -> BlockNums]]
PtrFileSizes == {0, ExtBlockSize, ExtBlockSize + 4, 2 * ExtBlockSize, 4 * ExtBlockSize,
                 5 * ExtBlockSize}

\* FileExtents of a file whose inode has block pointers.
ExtBlockPointerExtents ==
    /\ fsCall = NoCall
    /\ \E ino \in PtrInodes, disk \in PtrDisks, errAt \in {0, DiskBlocks},
          fileSize \in PtrFileSizes :
          LET r == getBlockPointerExtents(ino, disk, errAt, fileSize)
          IN  fsCall' = [op |-> "ext.blockPointers", ino |-> ino, disk |-> disk,
                         errAt |-> errAt, fileSize |-> fileSize, err |-> r.err,
                         extents |-> r.extents]
    /\ UNCHANGED <<fbCall, gwCall>>
    /\ UNCHANGED <<srvVars, sessVars, extVars, rdVars, xtsVars>>

NextPtr == ExtBlockPointerExtents \/ FsForget

SpecPtr == Init /\ [][NextPtr]_vars

(***************************************************************************)
(* ext.go: walkExtentTree under getExtentTreeExtents, one loop iteration   *)
(* or one call per step.  A node is its header (magic good or not, depth)  *)
(* and its entries; an entry is read as an extent in a node of depth 0 and *)
(* as the number of a block holding a node otherwise.                      *)
(***************************************************************************)
TreeBlocks == 2     \* blocks of the device that hold a node
MaxEntries == 2     \* entries of a node
MaxTreeDepth == 1   \* largest depth a header gives
StackMax == 5       \* nested calls of walkExtentTree followed

BadMagic == [magic |-> FALSE, depth |-> 0, entries |-> <<>>]
TreeNodes == {[magic |-> TRUE, depth |-> d, entries |-> e] :
                 d \in 0..MaxTreeDepth,
                 e \in UNION {[1..n -> 1..(TreeBlocks + 1)] : n \in 0..MaxEntries}}
                 \cup {BadMagic}

\* A call of walkExtentTree(data, fn) begins: 707-716.
walkEnter(w, node) ==
    IF ~node.magic THEN [w EXCEPT !.status = "error"]
    ELSE [w EXCEPT !.stack = Append(@, [node |-> node, i |-> 0])]

\* The callback of getExtentTreeExtents 304-327 on an extent of one block.
walkFn(w) ==
    IF w.remaining <= 0 THEN [w EXCEPT !.status = "EOF"]
    ELSE [w EXCEPT !.remaining = @ - 1, !.extents = @ + 1,
                   !.stack[Len(w.stack)].i = @ + 1]

\* The innermost call of walkExtentTree goes on by one step: 718-750.
walkStep(w) ==
    LET top == w.stack[Len(w.stack)]
        under == SubSeq(w.stack, 1, Len(w.stack) - 1)
    IN  IF top.i >= Len(top.node.entries)
        THEN IF under = <<>> THEN [w EXCEPT !.stack = <<>>, !.status = "nil"]
             ELSE [w EXCEPT !.stack = [under EXCEPT ![Len(under)].i = @ + 1]]
        ELSE IF top.node.depth = 0 THEN walkFn(w)
        ELSE LET leafBlock == top.node.entries[top.i + 1]
             IN  IF leafBlock \notin DOMAIN w.disk THEN [w EXCEPT !.status = "error"]
                 ELSE walkEnter(w, w.disk[leafBlock])

\* getExtentTreeExtents is called on an inode: the walk begins at i_block.
WalkStart ==
    /\ fsCall = NoCall
    /\ \E root \in TreeNodes, disk \in [1..TreeBlocks -> TreeNodes], size \in {1, 3} :
          fsCall' = walkEnter([op |-> "ext.walk", root |-> root, disk |-> disk,
                               remaining |-> size, extents |-> 0, stack |-> <<>>,
                               status |-> "running"], root)
    /\ UNCHANGED <<fbCall, gwCall>>
    /\ UNCHANGED <<srvVars, sessVars, extVars, rdVars, xtsVars>>

WalkStep ==
    /\ fsCall # NoCall
    /\ fsCall.op = "ext.walk"
    /\ fsCall.status = "running"
    /\ Len(walkStep(fsCall).stack) <= StackMax
    /\ fsCall' = walkStep(fsCall)
    /\ UNCHANGED <<fbCall, gwCall>>
    /\ UNCHANGED <<srvVars, sessVars, extVars, rdVars, xtsVars>>

WalkForget ==
    /\ fsCall # NoCall
    /\ fsCall.op = "ext.walk"
    /\ fsCall.status # "running"
    /\ fsCall' = NoCall
    /\ UNCHANGED <<fbCall, gwCall>>
    /\ UNCHANGED <<srvVars, sessVars, extVars, rdVars, xtsVars>>

NextWalk == WalkStart \/ WalkStep \/ WalkForget

SpecWalk == Init /\ [][NextWalk]_vars

(***************************************************************************)
(* ntfs.go: the update sequence fixup and the index allocation.  A record  *)
(* is its signature, its update sequence array (usa[1] the update sequence *)
(* word, then one saved word per sector), the last word of each of its     *)
(* sectors and the index entries it holds.                                 *)
(***************************************************************************)
RecordSectors == 2   \* sectors of an index record
MaxRecords == 2      \* index records of a directory

\* applyFixup 241-268; the loop from sector i on, then the whole.
RECURSIVE fixupLoop(_, _)
fixupLoop(rec, i) ==
    IF ~(i < rec.usaCount) \/ i > Len(rec.tails) THEN [err |-> FALSE, tails |-> rec.tails]
    ELSE IF rec.tails[i] # rec.usa[1] THEN [err |-> TRUE, tails |-> rec.tails]
    ELSE fixupLoop([rec EXCEPT !.tails[i] = rec.usa[i + 1]], i + 1)

applyFixup(rec) ==
    IF rec.usaCount < 2 THEN [err |-> FALSE, tails |-> rec.tails]
    ELSE IF ~rec.usaInBounds THEN [err |-> TRUE, tails |-> rec.tails]
    ELSE fixupLoop(rec, 1)

\* parseIndexAllocation 581-611: the loop over the records of the
\* attribute, and what it returns.
RECURSIVE indexLoop(_, _, _)
indexLoop(records, k, allEntries) ==
    IF k > Len(records) THEN [err |-> FALSE, entries |-> allEntries]
    ELSE IF ~records[k].indx THEN indexLoop(records, k + 1, allEntries)
    ELSE IF applyFixup(records[k]).err THEN indexLoop(records, k + 1, allEntries)
    ELSE IF records[k].badEntries THEN indexLoop(records, k + 1, allEntries)
    ELSE indexLoop(records, k + 1, allEntries \o records[k].entries)

parseIndexAllocation(records) == indexLoop(records, 1, <<>>)

\* Inputs: index records with and without a torn sector.
IndexRecords ==
    [indx : BOOLEAN, usaCount : {1, RecordSectors + 1}, usaInBounds : BOOLEAN,
     usa : {<<1, 3, 4>>, <<2, 3, 4>>}, tails : [1..RecordSectors -> {1, 2}],
     badEntries : BOOLEAN, entries : {<<>>, <<"a">>, <<"b">>}]
IndexAllocations == UNION {[1..n -> IndexRecords] : n \in 1..MaxRecords}

\* A directory's index allocation is parsed (readDir 545-556).
NtfsParseIndexAllocation ==
    /\ fsCall = NoCall
    /\ \E records \in IndexAllocations :
          LET r == parseIndexAllocation(records)
          IN  fsCall' = [op |-> "ntfs.index", records |-> records, err |-> r.err,
                         entries |-> r.entries]
    /\ UNCHANGED <<fbCall, gwCall>>
    /\ UNCHANGED <<srvVars, sessVars, extVars, rdVars, xtsVars>>

NextNtfs == NtfsParseIndexAllocation \/ FsForget

SpecNtfs == Init /\ [][NextNtfs]_vars

\* A record with a sector, among those its update sequence array covers,
\* whose last word is not the update sequence word.
TornRecord(rec) ==
    /\ rec.indx
    /\ rec.usaCount >= 2
    /\ rec.usaInBounds
    /\ \E i \in 1..Len(rec.tails) : i < rec.usaCount /\ rec.tails[i] # rec.usa[1]

(***************************************************************************)
(* A regular file read in the two ways the commands read it: through       *)
(* Open and Read to the end, and through an ExtentReaderAt on the extents  *)
(* FileExtents returns.  The image is large enough for every read; the     *)
(* byte at offset p of a data cluster or data block is ImgByte(p).         *)
(***************************************************************************)
ImgByte(p) == (p % 250) + 1

\* The boot sector of the FAT16 volume the files are on: sectors of
\* SectorLen bytes, one sector per cluster.
ChainBoot == [bytesPerSector |-> SectorLen, sectorsPerCluster |-> 1, reservedSectors |-> 1,
              numFATs |-> 1, rootEntryCount |-> 0, totalSectors16 |-> 4100,
              totalSectors32 |-> 0, fatSize16 |-> 5, fatSize32 |-> 0, rootCluster |-> 0]

\* fat.FS.clusterSize
clusterSize(bpb) == bpb.sectorsPerCluster * bpb.bytesPerSector

\* The end of a chain as both walks test it, 236-241 and 297-302.
chainEnds(bpb, t, nxt) == isEOF(t, nxt) \/ nxt < 2 \/ nxt >= bpb.countOfClusters + 2

\* clusterChainExtents 187-250: the loop, with its variables.
RECURSIVE chainExtentsLoop(_, _, _, _, _)
chainExtentsLoop(bpb, t, fat, cluster, st) ==
    IF ~(st.remaining > 0) THEN st.extents \o st.currentExtent
    ELSE LET physOffset == clusterToOffset(bpb, cluster)
             extentLen == Min(clusterSize(bpb), st.remaining)
             cur == st.currentExtent
             st1 == IF cur # <<>> /\ cur[1].Physical + cur[1].Length = physOffset
                    THEN [st EXCEPT !.currentExtent =
                                        <<[cur[1] EXCEPT !.Length = @ + extentLen]>>,
                                    !.logicalOffset = @ + extentLen,
                                    !.remaining = @ - extentLen]
                    ELSE [extents |-> st.extents \o cur,
                          currentExtent |-> <<Extent(st.logicalOffset, physOffset, extentLen)>>,
                          logicalOffset |-> st.logicalOffset + extentLen,
                          remaining |-> st.remaining - extentLen]
             nxt == next(t, fat, cluster)
         IN  IF st1.remaining <= 0 \/ chainEnds(bpb, t, nxt)
             THEN st1.extents \o st1.currentExtent
             ELSE chainExtentsLoop(bpb, t, fat, nxt, st1)

clusterChainExtents(bpb, t, fat, startCluster, fileSize) ==
    IF startCluster < 2 THEN <<>>
    ELSE chainExtentsLoop(bpb, t, fat, startCluster,
             [extents |-> <<>>, currentExtent |-> <<>>, logicalOffset |-> 0,
              remaining |-> fileSize])

\* readCluster 263-271
readCluster(bpb, cluster) ==
    [i \in 1..clusterSize(bpb) |-> ImgByte(clusterToOffset(bpb, cluster) + i - 1)]

\* readClusterChain 274-319 for maxSize > 0: the loop, then the cut.
RECURSIVE readChainLoop(_, _, _, _, _, _)
readChainLoop(bpb, t, fat, cluster, maxSize, data) ==
    LET data1 == data \o readCluster(bpb, cluster)
        nxt == next(t, fat, cluster)
    IN  IF Len(data1) >= maxSize \/ chainEnds(bpb, t, nxt) THEN data1
        ELSE readChainLoop(bpb, t, fat, nxt, maxSize, data1)

readClusterChain(bpb, t, fat, startCluster, maxSize) ==
    IF startCluster < 2 THEN [err |-> TRUE, data |-> <<>>]
    ELSE LET data == readChainLoop(bpb, t, fat, startCluster, maxSize, <<>>)
         IN  [err |-> FALSE, data |-> SubSeq(data, 1, Min(Len(data), maxSize))]

\* readBlock of a data block; a block that holds pointers reads as those
\* pointers, four bytes each.
readBlock(disk, b) ==
    IF b \in DOMAIN disk
    THEN [i \in 1..ExtBlockSize |->
             IF (i - 1) % 4 = 0 /\ (i - 1) \div 4 < pointersPerBlock
             THEN disk[b][(i - 1) \div 4 + 1] ELSE 0]
    ELSE [i \in 1..ExtBlockSize |-> ImgByte(b * ExtBlockSize + i - 1)]

\* readIndirectBlocks 609-643: the loop from pointer i on.
RECURSIVE readIndirectFrom(_, _, _, _, _, _)
readIndirectFrom(disk, block, level, maxBlocks, i, data) ==
    IF ~(i < pointersPerBlock /\ Len(data) \div ExtBlockSize < maxBlocks) THEN data
    ELSE LET ptr == PtrBlock(disk, block)[i + 1] IN
         IF ptr = 0 THEN readIndirectFrom(disk, block, level, maxBlocks, i + 1, data)
         ELSE IF level = 1
         THEN readIndirectFrom(disk, block, level, maxBlocks, i + 1,
                               data \o readBlock(disk, ptr))
         ELSE readIndirectFrom(disk, block, level, maxBlocks, i + 1,
                  data \o readIndirectFrom(disk, ptr, level - 1,
                                           maxBlocks - Len(data) \div ExtBlockSize, 0, <<>>))

\* readBlockPointers 546-607: the loop over the direct pointers.
RECURSIVE readDirectLoop(_, _, _, _, _)
readDirectLoop(ino, disk, blocksNeeded, i, data) ==
    IF ~(i < DirectBlocks /\ Len(data) \div ExtBlockSize < blocksNeeded) THEN data
    ELSE IF ino.direct[i + 1] = 0 THEN readDirectLoop(ino, disk, blocksNeeded, i + 1, data)
    ELSE readDirectLoop(ino, disk, blocksNeeded, i + 1,
                        data \o readBlock(disk, ino.direct[i + 1]))

\* 566-576, 579-589, 592-601: one indirect pointer of the inode.
readIndirectStep(disk, blocksNeeded, block, level, data) ==
    IF Len(data) \div ExtBlockSize < blocksNeeded /\ block # 0
    THEN data \o readIndirectFrom(disk, block, level,
                                  blocksNeeded - Len(data) \div ExtBlockSize, 0, <<>>)
    ELSE data

readBlockPointers(ino, disk, maxSize) ==
    LET blocksNeeded == (maxSize + ExtBlockSize - 1) \div ExtBlockSize
        d == readDirectLoop(ino, disk, blocksNeeded, 0, <<>>)
        s == readIndirectStep(disk, blocksNeeded, ino.ind, 1, d)
        dd == readIndirectStep(disk, blocksNeeded, ino.dind, 2, s)
        t == IF Len(dd) \div ExtBlockSize < blocksNeeded /\ ino.tind # 0
             THEN dd \o readIndirectFrom(disk, ino.tind, 3,
                                         blocksNeeded - Len(dd) \div ExtBlockSize, 0, <<>>)
             ELSE dd
    IN  SubSeq(t, 1, Min(Len(t), maxSize))

\* streamFromReaderAt(NewExtentReaderAt(base, extents, size), size): the
\* bytes of the extent that covers an offset, zeroes where none does.
\* base[p] is the byte of the image at offset p.
streamFromReaderAt(extents, size, base) ==
    [l \in 1..size |->
        LET ph == Lookup(extents, l - 1) IN IF ph < 0 THEN 0 ELSE base[ph]]

\* The images as BaseReader() reads them: the FAT volume up to the end of
\* cluster 4, the ext volume block after block.
FatImg(bpb) == [p \in 0..(clusterToOffset(bpb, 5) - 1) |-> ImgByte(p)]
ExtImg(disk) ==
    [p \in 0..((DiskBlocks + 1) * ExtBlockSize - 1) |->
        readBlock(disk, p \div ExtBlockSize)[(p % ExtBlockSize) + 1]]

\* Inputs: the entries of clusters 2 to 4 of the FAT, two bytes each, the
\* first cluster of a file and its size.
ChainEntries == {0, 3, 4, 65535}
ChainFats == [2..4 -> ChainEntries]
ChainFatBytes(f) ==
    [j \in 1..10 |-> LET c == (j - 1) \div 2
                         e == IF c < 2 THEN 65535 ELSE f[c]
                     IN  IF (j - 1) % 2 = 0 THEN e % 256 ELSE e \div 256]
ChainSizes22 == 1..(3 * SectorLen)

\* cat of a regular file on a FAT volume, in both ways.
FatCat ==
    /\ fsCall = NoCall
    /\ \E f \in ChainFats, startCluster \in 2..4, fileSize \in ChainSizes22 :
          LET fs == parseBPB(ChainBoot)
              t == newFatTable(fs.bpb)
              fat == ChainFatBytes(f)
              extents == clusterChainExtents(fs.bpb, t, fat, startCluster, fileSize)
              opened == readClusterChain(fs.bpb, t, fat, startCluster, fileSize)
          IN  fsCall' = [op |-> "cat", fs |-> "fat", entries |-> f,
                         startCluster |-> startCluster, fileSize |-> fileSize,
                         extents |-> extents, opened |-> opened.data,
                         streamed |-> IF Len(extents) > 0
                                      THEN streamFromReaderAt(extents, fileSize, FatImg(fs.bpb))
                                      ELSE opened.data]
    /\ UNCHANGED <<fbCall, gwCall>>
    /\ UNCHANGED <<srvVars, sessVars, extVars, rdVars, xtsVars>>

\* cat of a regular file with block pointers on an ext volume, in both ways.
ExtCat ==
    /\ fsCall = NoCall
    /\ \E ino \in PtrInodes, disk \in PtrDisks, fileSize \in PtrFileSizes \ {0} :
          LET extents == getBlockPointerExtents(ino, disk, 0, fileSize).extents
              opened == readBlockPointers(ino, disk, fileSize)
          IN  fsCall' = [op |-> "cat", fs |-> "ext", ino |-> ino, disk |-> disk,
                         fileSize |-> fileSize, extents |-> extents, opened |-> opened,
                         streamed |-> IF Len(extents) > 0
                                      THEN streamFromReaderAt(extents, fileSize, ExtImg(disk))
                                      ELSE opened]
    /\ UNCHANGED <<fbCall, gwCall>>
    /\ UNCHANGED <<srvVars, sessVars, extVars, rdVars, xtsVars>>

NextCat == FatCat \/ ExtCat \/ FsForget

SpecCat == Init /\ [][NextCat]_vars

(***************************************************************************)
(* C1: in every session, no simple (transmission) reply is sent before the *)
(* session has received an ExportName or Go option that resolved to a      *)
(* registered export, and a session that has received Abort is closed      *)
(* after the ACK: it never enters transmission.                            *)
(***************************************************************************)
C1_NoTransmissionBeforeExport ==
    /\ \A s \in Conns :
          /\ (phase[s] = "transmit" \/ replies[s] # <<>>) =>
                (term[s] \in {"ExportName", "Go"} /\ export[s] \in DOMAIN exports)
          /\ term[s] = "Abort" => (phase[s] = "closed" /\ replies[s] = <<>>)
    /\ last.op = "option" =>
          /\ SimpleReplies(last.sent) = <<>>
          /\ last.msg.type = nbdOptAbort =>
                last.sent = <<OptionReply(nbdOptAbort, nbdRepAck, NoData)>>
          /\ phase[last.sess] = "transmit" =>
                (last.msg.type \in {nbdOptExportName, nbdOptGo} /\ last.exp \in DOMAIN exports)
    /\ last.op = "request" =>
          (term[last.sess] \in {"ExportName", "Go"} /\ last.exp \in DOMAIN exports)

\* One session was closed by Abort while another, bound by Go, has a request
\* answered.
C1_Witness ==
    /\ last.op = "request"
    /\ SimpleReplies(last.sent) # <<>>
    /\ term[last.sess] = "Go"
    /\ \E s \in Conns : term[s] = "Abort" /\ phase[s] = "closed"

(***************************************************************************)
(* C2: within a session the requests are handled one at a time, and the    *)
(* replies are written in the order of their requests: each request adds   *)
(* at most one reply, at the end of what the connection carries, so the    *)
(* k-th reply answers the k-th request that produced one.                  *)
(***************************************************************************)
C2_RepliesInRequestOrder ==
    /\ \A s \in Conns :
          /\ \A i, j \in 1..Len(replies[s]) : i < j => replies[s][i].req < replies[s][j].req
          /\ \A i \in 1..Len(replies[s]) : replies[s][i].req \in 1..nreq[s]
    /\ last.op = "request" =>
          /\ Len(SimpleReplies(last.sent)) <= 1
          /\ last.after = last.before \o
                [i \in 1..Len(SimpleReplies(last.sent)) |->
                    [req |-> last.reqno, error |-> SimpleReplies(last.sent)[i].error]]
          /\ \A i \in 1..Len(last.before) : last.before[i].req < last.reqno

\* A second request of a session is answered after the first.
C2_Witness ==
    /\ last.op = "request"
    /\ last.msg.cmd \in {nbdCmdFlush, nbdCmdTrim, 9}
    /\ Len(last.before) = 1
    /\ Len(last.after) = 2
    /\ replies[last.sess] = last.after

(***************************************************************************)
(* C3: a READ (offset, length) on an export of size S with offset+length   *)
(* > S is answered EINVAL without payload and the reader is not read;      *)
(* otherwise, when the reader returns n <= length bytes and no error other *)
(* than EOF, the answer is error 0 with exactly length bytes: the n bytes  *)
(* read, then length-n zeroes.                                             *)
(***************************************************************************)
C3_ReadContract ==
    (last.op = "request" /\ last.msg.cmd = nbdCmdRead) =>
        LET m == last.msg
            size == exports[last.exp].size
        IN  IF m.offset + m.length > size
            THEN /\ last.sent = <<sendReply(m.handle, nbdErrInval, <<>>)>>
                 /\ last.rd = <<>>
            ELSE /\ Len(last.rd) = 1
                 /\ last.rd[1].err \in {"nil", "EOF"} =>
                       last.sent = <<sendReply(m.handle, nbdErrNone,
                           [i \in 1..m.length |->
                               IF i <= last.rd[1].n THEN last.rd[1].got[i] ELSE 0])>>

\* A READ whose offset+length wraps past the top of the offset range reaches
\* the reader.
C3_WrappedReadReachesReader ==
    /\ last.op = "request" /\ last.msg.cmd = nbdCmdRead
    /\ last.msg.offset + last.msg.length > exports[last.exp].size
    /\ last.rd # <<>>
    /\ last.sent = <<sendReply(last.msg.handle, nbdErrIO, <<>>)>>

(***************************************************************************)
(* C4: a WRITE (offset, length) whose payload is on the connection: with   *)
(* no writer, length bytes are consumed, the answer is EPERM and nothing   *)
(* is written; with a writer and offset+length > size, length bytes are    *)
(* consumed, the answer is EINVAL and nothing is written; otherwise the    *)
(* length bytes are passed to the writer at offset and the answer is error *)
(* 0.  In all three the next header starts right after the payload.        *)
(***************************************************************************)
C4_WriteContract ==
    (last.op = "request" /\ last.msg.cmd = nbdCmdWrite
        /\ Len(last.msg.payload) = last.msg.length) =>
        LET m == last.msg
            size == exports[last.exp].size
        IN  /\ last.consumed = RequestHeaderLen + m.length
            /\ IF ~exports[last.exp].writer
               THEN last.sent = <<sendReply(m.handle, nbdErrPerm, <<>>)>> /\ last.wr = <<>>
               ELSE IF m.offset + m.length > size
               THEN last.sent = <<sendReply(m.handle, nbdErrInval, <<>>)>> /\ last.wr = <<>>
               ELSE /\ Len(last.wr) = 1
                    /\ last.wr[1].off = m.offset
                    /\ last.wr[1].data = m.payload
                    /\ last.wr[1].err = "nil" =>
                          last.sent = <<sendReply(m.handle, nbdErrNone, <<>>)>>

\* A WRITE whose offset+length wraps past the top of the offset range reaches
\* the writer.
C4_WrappedWriteReachesWriter ==
    /\ last.op = "request" /\ last.msg.cmd = nbdCmdWrite
    /\ Len(last.msg.payload) = last.msg.length
    /\ last.msg.offset + last.msg.length > exports[last.exp].size
    /\ last.wr # <<>>
    /\ last.sent = <<sendReply(last.msg.handle, nbdErrIO, <<>>)>>

(***************************************************************************)
(* C5: an export of a run without -rw is registered without a writer; in   *)
(* every reachable state, whatever the sessions send, the bytes of its     *)
(* image are unchanged, and the export flags sent for it include           *)
(* READ_ONLY.                                                              *)
(***************************************************************************)
C5_ReadOnlyWithoutRw ==
    /\ \A n \in DOMAIN exports :
          ~exports[n].rw => (~exports[n].writer /\ image[n] = InitImage)
    /\ (last.op = "option" /\ last.exp # NoExport /\ ~exports[last.exp].rw) =>
          \A i \in 1..Len(last.sent) :
              LET f == last.sent[i] IN
              /\ f.kind = "oldstyle" => HasFlag(f.flags, nbdFlagReadOnly)
              /\ (f.kind = "optreply" /\ f.type = nbdRepInfo /\ f.data.info = nbdInfoExport) =>
                    HasFlag(f.data.flags, nbdFlagReadOnly)
    /\ (last.op = "request" /\ ~exports[last.exp].rw) => last.wr = <<>>

\* A session that was told READ_ONLY sends a WRITE inside the export, payload
\* and all, and is refused.
C5_Witness ==
    /\ last.op = "request" /\ last.msg.cmd = nbdCmdWrite
    /\ ~exports[last.exp].rw
    /\ last.msg.length > 0
    /\ Len(last.msg.payload) = last.msg.length
    /\ last.msg.offset + last.msg.length <= exports[last.exp].size
    /\ last.sent = <<sendReply(last.msg.handle, nbdErrPerm, <<>>)>>
    /\ image[last.exp] = InitImage

(***************************************************************************)
(* C6: when the reader (READ) or the writer (WRITE) fails with an error    *)
(* other than end-of-stream, the answer is EIO without payload and the     *)
(* session stays in transmission, the connection positioned at the next    *)
(* request header: the next request is read and answered.                  *)
(***************************************************************************)
C6_IoErrorRepliesEioAndContinues ==
    (last.op = "request"
        /\ \/ \E i \in 1..Len(last.rd) : last.rd[i].err = "error"
           \/ \E i \in 1..Len(last.wr) : last.wr[i].err = "error") =>
        /\ last.sent = <<sendReply(last.msg.handle, nbdErrIO, <<>>)>>
        /\ last.after = Append(last.before, [req |-> last.reqno, error |-> nbdErrIO])
        /\ phase[last.sess] = "transmit"
        /\ export[last.sess] = last.exp
        /\ unread[last.sess] = 0
        /\ ~eof[last.sess]

\* The request after one answered EIO is a READ answered with its data.
C6_Witness ==
    /\ last.op = "request" /\ last.msg.cmd = nbdCmdRead
    /\ last.msg.length > 0
    /\ Len(last.before) = 1
    /\ last.before[1].error = nbdErrIO
    /\ last.reqno = 2
    /\ Len(last.sent) = 1
    /\ last.sent[1].error = nbdErrNone
    /\ last.sent[1].data = SubSeq(InitImage, last.msg.offset + 1, last.msg.offset + last.msg.length)

(***************************************************************************)
(* C7: during haggling an option other than ExportName, Abort, List and Go *)
(* is answered with exactly one option reply, ERR_UNSUP (0x80000001),      *)
(* echoing the option number; the session stays in haggling, neither       *)
(* closed nor in transmission, and a later ExportName or Go is honoured.   *)
(***************************************************************************)
C7_UnknownOptionUnsupported ==
    /\ (last.op = "option"
           /\ last.msg.type \notin {nbdOptExportName, nbdOptAbort, nbdOptList, nbdOptGo}) =>
          /\ last.sent = <<OptionReply(last.msg.type, nbdRepErrUnsup, NoData)>>
          /\ nbdRepErrUnsup = <<1, 1>>
          /\ ~last.done /\ ~last.err
          /\ phase[last.sess] = "haggle"
          /\ term[last.sess] = "unsupported"
    /\ \A s \in Conns : term[s] = "unsupported" => phase[s] \in {"haggle", "closed"}
    /\ (last.op = "option" /\ last.prev = "unsupported"
           /\ last.msg.type \in {nbdOptExportName, nbdOptGo}
           /\ last.msg.data.len > 0 /\ last.msg.data.name \in DOMAIN exports
           /\ (last.msg.type = nbdOptGo => last.msg.data.len = 4 + last.msg.data.nameLen + 2)
           /\ Len(last.sent) = (IF last.msg.type = nbdOptGo THEN 3 ELSE 1)
           /\ ~last.err) =>
          (phase[last.sess] = "transmit" /\ export[last.sess] = last.msg.data.name)

\* After an unsupported option a Go for a registered export is honoured.
C7_Witness ==
    /\ last.op = "option"
    /\ last.prev = "unsupported"
    /\ last.msg.type = nbdOptGo
    /\ last.msg.data.len > 0
    /\ last.done
    /\ phase[last.sess] = "transmit"
    /\ export[last.sess] = last.msg.data.name

(***************************************************************************)
(* C8: a Go option with an empty export name binds the session to the      *)
(* first registered export, the one of the earliest successful AddExport;  *)
(* with two or more exports every such session gets that same export.      *)
(***************************************************************************)
C8_EmptyGoBindsFirstRegistered ==
    (last.op = "option" /\ last.msg.type = nbdOptGo
        /\ GoName(last.msg.data) = [panic |-> FALSE, name |-> ""]
        /\ last.exp # NoExport) =>
        last.exp = regOrder[1]

\* With two exports registered, an empty Go is bound to the second.
C8_EmptyGoBindsLaterExport ==
    /\ last.op = "option" /\ last.msg.type = nbdOptGo
    /\ last.msg.data.len = 0
    /\ Len(regOrder) = 2
    /\ last.done
    /\ export[last.sess] = regOrder[2]

(***************************************************************************)
(* C9: shutdown unblocks the accept loop.  For every interleaving of one   *)
(* Close call with Serve, once Close has signalled done and Serve is in    *)
(* its accept loop, Serve eventually returns nil; and no connection is     *)
(* accepted after Serve has returned.                                      *)
(***************************************************************************)
C9_ShutdownUnblocksAccept ==
    /\ (done /\ servePc = "accept") ~> (servePc = "returned" /\ serveRet = "nil")
    /\ [][servePc = "returned" => phase' = phase]_vars

\* Close has run to its end before Serve stored its listener: the listener
\* is open, nothing will close it, and Serve waits in Accept.
C9_ClosedBeforeListen ==
    /\ closePc = "returned"
    /\ done
    /\ servePc = "accept"
    /\ lnState = "open"

(***************************************************************************)
(* C10: for sorted, non-overlapping outer and inner, ComposeExtents(outer, *)
(* inner) maps a logical offset L exactly when outer maps L to some x and  *)
(* inner maps x to some y, and then maps L to y; every other L (outside    *)
(* outer, or in a hole of inner) is unmapped.                              *)
(***************************************************************************)
C10_ComposeIsComposition ==
    (extPc = "composed" /\ NonOverlapping(outer) /\ NonOverlapping(inner)) =>
        \A L \in LogicalOffsets :
            Lookup(composed, L) =
                (IF Lookup(outer, L) < 0 THEN -1 ELSE Lookup(inner, Lookup(outer, L)))

\* One outer extent lies over an inner extent, a hole and a second inner
\* extent: two composed extents with an unmapped offset between them.
C10_Witness ==
    /\ extPc = "composed"
    /\ NonOverlapping(outer) /\ NonOverlapping(inner)
    /\ Len(outer) = 1 /\ Len(inner) = 2 /\ Len(composed) = 2
    /\ composed[1].Logical + composed[1].Length < composed[2].Logical
    /\ \E L \in LogicalOffsets : Lookup(outer, L) >= 0 /\ Lookup(composed, L) < 0

(***************************************************************************)
(* C11: after any chain of NewExtentReaderAt constructions, each reader    *)
(* built directly on the previous one, the backing reader of every reader  *)
(* of the chain is the original base reader and never an ExtentReaderAt,   *)
(* whatever the depth.                                                     *)
(***************************************************************************)
C11_ChainIsFlattened ==
    \A i \in 1..Len(chain) :
        /\ chain[i].r = BaseReader
        /\ ~IsExtentReaderAt(chain[i].r)

\* A chain of three readers whose last still maps something.
C11_Witness ==
    /\ Len(chain) >= 3
    /\ chain[3].extents # <<>>
    /\ chain[3].r = BaseReader

(***************************************************************************)
(* C12: for an ExtentReaderAt of size S whose extents do not overlap and   *)
(* lie inside the backing reader, ReadAt(p, off) with 0 <= off < S         *)
(* delivers exactly min(len(p), S-off) bytes; the byte for logical offset  *)
(* L is the backing byte at the physical offset of the extent covering L,  *)
(* or zero when no extent covers L; ReadAt with off >= S delivers no byte  *)
(* and end-of-stream.                                                      *)
(***************************************************************************)
C12_ReadAtTranslates ==
    (rdCall.op = "ReadAt"
        /\ NonOverlapping(rdCall.e.extents)
        /\ \A i \in 1..Len(rdCall.e.extents) :
              rdCall.e.extents[i].Physical + rdCall.e.extents[i].Length <= BaseSize) =>
        /\ (0 <= rdCall.off /\ rdCall.off < rdCall.e.size) =>
              /\ rdCall.n = Min(rdCall.plen, rdCall.e.size - rdCall.off)
              /\ Len(rdCall.data) = rdCall.n
              /\ \A i \in 1..rdCall.n :
                    rdCall.data[i] =
                        (IF Lookup(rdCall.e.extents, rdCall.off + i - 1) < 0 THEN 0
                         ELSE BaseByte(Lookup(rdCall.e.extents, rdCall.off + i - 1)))
        /\ rdCall.off >= rdCall.e.size => (rdCall.n = 0 /\ rdCall.err = "EOF")

\* A read over an extent, a hole and a second extent.
C12_Witness ==
    /\ rdCall.op = "ReadAt"
    /\ Len(rdCall.e.extents) = 2
    /\ NonOverlapping(rdCall.e.extents)
    /\ \A i \in 1..2 : rdCall.e.extents[i].Physical + rdCall.e.extents[i].Length <= BaseSize
    /\ rdCall.n = 3
    /\ rdCall.data[1] # 0 /\ rdCall.data[2] = 0 /\ rdCall.data[3] # 0
    /\ rdCall.data[1] # rdCall.data[3]

(***************************************************************************)
(* C13: an ExtentReaderAt read that reaches size returns end-of-stream:    *)
(* for every off < size and every buffer with off+len(p) >= size, ReadAt   *)
(* returns the end-of-stream indicator with the bytes read; and it never   *)
(* returns fewer bytes than len(p) without an error or end-of-stream.      *)
(***************************************************************************)
C13_ReadReachingSizeIsEof ==
    (rdCall.op = "ReadAt" /\ rdCall.off >= 0) =>
        /\ (rdCall.off < rdCall.e.size /\ rdCall.off + rdCall.plen >= rdCall.e.size) =>
              rdCall.err = "EOF"
        /\ rdCall.n < rdCall.plen => rdCall.err # "nil"

\* A read cut short at size that reports no error and no end-of-stream.
C13_ShortReadWithoutEof ==
    /\ rdCall.op = "ReadAt"
    /\ rdCall.off >= 0 /\ rdCall.off < rdCall.e.size
    /\ rdCall.off + rdCall.plen > rdCall.e.size
    /\ rdCall.n = rdCall.e.size - rdCall.off
    /\ rdCall.n < rdCall.plen
    /\ rdCall.err = "nil"

(***************************************************************************)
(* C14: whatever Encrypt accepts, Decrypt with the same start sector gives *)
(* back: Decrypt(Encrypt(P, s), s) = P without error, and the i-th sector  *)
(* of the ciphertext is the i-th sector of P encrypted under sector number *)
(* s + i.                                                                  *)
(***************************************************************************)
C14_DecryptUndoesEncrypt ==
    (xcall.op = "EncryptDecrypt" /\ ~xcall.encErr) =>
        /\ ~xcall.decErr
        /\ xcall.dec = xcall.P
        /\ \A i \in 0..((Len(xcall.P) \div xcipher.sectorSize) - 1) :
              SubSeq(xcall.enc, i * xcipher.sectorSize + 1, (i + 1) * xcipher.sectorSize)
                = EncryptSector(xcipher,
                      SubSeq(xcall.P, i * xcipher.sectorSize + 1, (i + 1) * xcipher.sectorSize),
                      (xcall.s + i) % TweakMod).data

\* Two sectors of equal plaintext, encrypted to different ciphertexts from
\* a start sector whose successor wraps, come back.
C14_Witness ==
    /\ xcall.op = "EncryptDecrypt"
    /\ ~xcall.encErr
    /\ Len(xcall.P) = 2 * xcipher.sectorSize
    /\ xcipher.tweakOffset # 0
    /\ xcall.s = TweakMod - 1
    /\ SubSeq(xcall.P, 1, xcipher.sectorSize)
         = SubSeq(xcall.P, xcipher.sectorSize + 1, 2 * xcipher.sectorSize)
    /\ SubSeq(xcall.enc, 1, xcipher.sectorSize)
         # SubSeq(xcall.enc, xcipher.sectorSize + 1, 2 * xcipher.sectorSize)
    /\ xcall.dec = xcall.P

(***************************************************************************)
(* C15: EncryptSector(P, s) under tweak offset 0 and EncryptSector(P, 0)   *)
(* under tweak offset s, same key and sector size, give the same error and *)
(* leave the same bytes.                                                   *)
(***************************************************************************)
C15_TweakOffsetAddsToSector ==
    xcall.op = "EncryptSectorPair" =>
        /\ xcall.errA = xcall.errB
        /\ xcall.outA = xcall.outB

\* A sector is encrypted under a nonzero s, to something other than what
\* sector number 0 gives under offset 0.
C15_Witness ==
    /\ xcall.op = "EncryptSectorPair"
    /\ ~xcall.errA
    /\ xcall.s # 0
    /\ xcall.outA = xcall.outB
    /\ xcall.outA # xcall.P
    /\ xcall.outA # EncryptSector([xcipher EXCEPT !.tweakOffset = 0], xcall.P, 0).data

(***************************************************************************)
(* C16: New gives a cipher only for a key of 32, 48 or 64 bytes and a      *)
(* sector size that is at least one block and a whole number of blocks,    *)
(* and an error with no cipher otherwise.                                  *)
(***************************************************************************)
C16_NewRejectsBadSizes ==
    xcall.op = "New" =>
        /\ xcall.err <=> ~(/\ xcall.key.len \in {32, 48, 64}
                           /\ xcall.sectorSize >= BlockLen
                           /\ xcall.sectorSize % BlockLen = 0)
        /\ xcall.err <=> (xcipher = NoCipher)

\* A sector is encrypted with its last byte outside every whole block: it
\* comes out as it went in.
C16_SectorWithLooseBytes ==
    /\ xcall.op = "EncryptDecrypt"
    /\ ~xcall.encErr
    /\ Len(xcall.P) = xcipher.sectorSize
    /\ xcipher.sectorSize % BlockLen # 0
    /\ xcall.enc # xcall.P
    /\ xcall.enc[Len(xcall.P)] = xcall.P[Len(xcall.P)]

(***************************************************************************)
(* C17: when the wrapped reader returns, for the aligned range ReadAt asks *)
(* of it, a count of bytes that is not a whole number of sectors, ReadAt   *)
(* returns an error and no bytes.                                          *)
(***************************************************************************)
C17_PartialSectorIsAnError ==
    (/\ xcall.op = "ReadAt"
     /\ xcall.off >= 0
     /\ xcall.off < xsize
     /\ xcall.under.n % xcipher.sectorSize # 0) =>
        /\ xcall.err = "error"
        /\ xcall.n = 0

\* The file ends inside the second sector asked for: ReadAt returns the
\* first sector alone, fewer bytes than asked, and a nil error.
C17_PartialSectorDropped ==
    /\ xcall.op = "ReadAt"
    /\ xcall.under = StoreReadAt(xstore, xcall.alignedLen, xcall.alignedStart)
    /\ xcall.under.n % xcipher.sectorSize # 0
    /\ xcall.under.n > xcipher.sectorSize
    /\ xcall.err = "nil"
    /\ xcall.n = xcipher.sectorSize
    /\ xcall.n < xcall.plen
    /\ xcall.off + xcall.plen <= xsize

(***************************************************************************)
(* C18: a WriteAt whose offset or whose buffer length is not a multiple of *)
(* the sector size returns an error and 0, and the bytes under the writer  *)
(* are as before; after every WriteAt the caller's buffer is as it was.    *)
(***************************************************************************)
C18_UnalignedWriteRejected ==
    xcall.op = "WriteAt" =>
        /\ xcall.buf = xcall.p
        /\ (xcall.off % xcipher.sectorSize # 0 \/ Len(xcall.p) % xcipher.sectorSize # 0) =>
              /\ xcall.n = 0
              /\ xcall.err # "nil"
              /\ xstore = xcall.before

\* Whole sectors at an offset inside a sector, over earlier writes, with a
\* writer underneath that would have taken them.
C18_Witness ==
    /\ xcall.op = "WriteAt"
    /\ xcall.off > 0
    /\ xcall.off < xsize
    /\ xcall.off % xcipher.sectorSize # 0
    /\ Len(xcall.p) = xcipher.sectorSize
    /\ xcall.under = "nil"
    /\ xplain[0] # Unwritten
    /\ xcall.n = 0
    /\ xcall.err = "error"
    /\ xstore = xcall.before

(***************************************************************************)
(* C19: every sector written through the WriterAt lies in the file as the  *)
(* encryption of its last written plaintext under its own sector number,   *)
(* and a ReadAt through the ReaderAt over the file returns, for each byte  *)
(* of its range inside a written sector, that plaintext's byte.            *)
(***************************************************************************)
C19_ReadBackThroughCipher ==
    /\ \A k \in DOMAIN xplain :
          xplain[k] # Unwritten =>
              /\ (k + 1) * xcipher.sectorSize <= Len(xstore)
              /\ SubSeq(xstore, k * xcipher.sectorSize + 1, (k + 1) * xcipher.sectorSize)
                    = EncryptSector(xcipher, xplain[k], k).data
    /\ (/\ xcall.op = "ReadAt"
        /\ xcall.off >= 0
        /\ xcall.under = StoreReadAt(xstore, xcall.alignedLen, xcall.alignedStart)) =>
          \A j \in 0..(xsize - 1) :
              (/\ j >= xcall.off
               /\ j < xcall.off + xcall.plen
               /\ xplain[j \div xcipher.sectorSize] # Unwritten) =>
                  /\ j - xcall.off < xcall.n
                  /\ xcall.data[j - xcall.off + 1]
                       = xplain[j \div xcipher.sectorSize][(j % xcipher.sectorSize) + 1]

\* Two sectors with different plaintexts are read in one call from inside
\* the first one; the file holds neither plaintext.
C19_Witness ==
    /\ xcall.op = "ReadAt"
    /\ xcall.under = StoreReadAt(xstore, xcall.alignedLen, xcall.alignedStart)
    /\ xplain[0] # Unwritten
    /\ xplain[1] # Unwritten
    /\ xplain[0] # xplain[1]
    /\ xcall.off = 1
    /\ xcall.n = 2 * xcipher.sectorSize - 1
    /\ xcall.data = SubSeq(xplain[0] \o xplain[1], 2, 2 * xcipher.sectorSize)
    /\ SubSeq(xstore, 1, xcipher.sectorSize) # xplain[0]
    /\ SubSeq(xstore, xcipher.sectorSize + 1, 2 * xcipher.sectorSize) # xplain[1]

(***************************************************************************)
(* C20: the list FreeBlocks returns, for a partition table, a FAT or an    *)
(* ext bitmap, is ascending by Start, no two of its ranges overlap, and    *)
(* every range has End > Start.                                            *)
(***************************************************************************)
C20_FreeBlocksOrdered ==
    (fbCall.op # "none" /\ ~fbCall.err) =>
        /\ \A i \in 1..Len(fbCall.ranges) : fbCall.ranges[i].End > fbCall.ranges[i].Start
        /\ \A i, j \in 1..Len(fbCall.ranges) :
              i < j => /\ fbCall.ranges[i].Start < fbCall.ranges[j].Start
                       /\ fbCall.ranges[i].End <= fbCall.ranges[j].Start

\* A GPT with one entry whose last LBA lies below its first: the gap before
\* the partition and the range after it overlap.
C20_OverlapAfterBackwardEntry ==
    /\ fbCall.op = "part"
    /\ fbCall.tableType = "GPT"
    /\ Len(fbCall.partitions) = 1
    /\ StartOffset(fbCall.partitions[1]) > 0
    /\ SizeBytes(fbCall.partitions[1]) < 0
    /\ Len(fbCall.ranges) = 2
    /\ fbCall.ranges[1].End = StartOffset(fbCall.partitions[1])
    /\ fbCall.ranges[2].Start < fbCall.ranges[1].End
    /\ fbCall.ranges[2].End <= fbCall.size

C29_FreeRangesAvoidPartitions ==
    fbCall.op = "part" =>
        \A i \in 1..Len(fbCall.ranges) :
            /\ fbCall.ranges[i].Start < fbCall.ranges[i].End =>
                  fbCall.ranges[i].Start >= reservedHeader(fbCall.tableType)
            /\ \A k \in 1..Len(fbCall.partitions) :
                  LET start == StartOffset(fbCall.partitions[k])
                      end == start + SizeBytes(fbCall.partitions[k])
                      lo == IF start > fbCall.ranges[i].Start THEN start ELSE fbCall.ranges[i].Start
                      hi == IF end < fbCall.ranges[i].End THEN end ELSE fbCall.ranges[i].End
                  IN  lo >= hi

\* A GPT entry so long that the end of its partition leaves int64: the
\* range after the gap before the partition runs over the partition's
\* first bytes.
C29_PartitionStartExposed ==
    /\ fbCall.op = "part"
    /\ fbCall.tableType = "GPT"
    /\ Len(fbCall.partitions) = 1
    /\ StartOffset(fbCall.partitions[1]) > reservedHeader("GPT")
    /\ SizeBytes(fbCall.partitions[1]) > 0
    /\ WrapInt64(StartOffset(fbCall.partitions[1]) + SizeBytes(fbCall.partitions[1])) < 0
    /\ Len(fbCall.ranges) = 2
    /\ fbCall.ranges[2].Start < StartOffset(fbCall.partitions[1])
    /\ fbCall.ranges[2].End > StartOffset(fbCall.partitions[1])

(***************************************************************************)
(* C27: in transmission a READ, a WRITE whose payload arrived whole, a     *)
(* FLUSH, a TRIM and a request of unknown command are each answered with   *)
(* exactly one simple reply carrying the handle of that request; a DISC is *)
(* answered with nothing; and every reply on a connection answers one      *)
(* request received on it, no two the same.                                *)
(***************************************************************************)
C27_OneReplyPerRequest ==
    /\ last.op = "request" =>
          /\ (last.msg.cmd = nbdCmdDisc) => last.sent = <<>>
          /\ (/\ last.msg.cmd # nbdCmdDisc
              /\ Len(last.msg.payload) = (IF last.msg.cmd = nbdCmdWrite THEN last.msg.length ELSE 0)) =>
                /\ Len(last.sent) = 1
                /\ last.sent[1].kind = "reply"
                /\ last.sent[1].handle = last.msg.handle
                /\ Len(last.after) = Len(last.before) + 1
                /\ last.after[Len(last.after)].req = last.reqno
          /\ \A i \in 1..Len(last.sent) :
                last.sent[i].kind = "reply" /\ last.sent[i].handle = last.msg.handle
    /\ \A s \in Conns :
          /\ Len(replies[s]) <= nreq[s]
          /\ \A i \in 1..Len(replies[s]) : replies[s][i].req \in 1..nreq[s]
          /\ \A i, j \in 1..Len(replies[s]) : i # j => replies[s][i].req # replies[s][j].req

\* The second request of a session, of an unknown command, is answered
\* with its own handle after a WRITE that was refused.
C27_Witness ==
    /\ last.op = "request"
    /\ last.msg.cmd = 9
    /\ last.reqno = 2
    /\ Len(last.before) = 1
    /\ last.before[1].error = nbdErrPerm
    /\ Len(last.sent) = 1
    /\ last.sent[1].handle = last.msg.handle
    /\ last.sent[1].error = nbdErrInval
    /\ Len(replies[last.sess]) = 2

(***************************************************************************)
(* C28: for every offset and length of a READ, and of a WRITE to an export *)
(* with a writer, whose sum as numbers exceeds the export size, the reply  *)
(* is EINVAL and neither ReadAt nor WriteAt is called, also when the sum   *)
(* wraps around in 64 bits.                                                *)
(***************************************************************************)
C28_RangeCheckIsExact ==
    (/\ last.op = "request"
     /\ \/ last.msg.cmd = nbdCmdRead
        \/ last.msg.cmd = nbdCmdWrite /\ exports[last.exp].writer
     /\ last.msg.offset + last.msg.length > exports[last.exp].size) =>
        /\ last.rd = <<>>
        /\ last.wr = <<>>
        /\ \A i \in 1..Len(last.sent) : last.sent[i].error = nbdErrInval
        /\ (last.msg.cmd = nbdCmdRead \/ Len(last.msg.payload) = last.msg.length) =>
              Len(last.sent) = 1

\* The sum of offset and length wraps to a value inside the export: the
\* reader is called at a negative offset.
C28_ReaderCalledBelowZero ==
    /\ last.op = "request"
    /\ last.msg.cmd = nbdCmdRead
    /\ last.msg.offset + last.msg.length >= U64
    /\ (last.msg.offset + last.msg.length) % U64 <= exports[last.exp].size
    /\ Len(last.rd) = 1
    /\ last.rd[1].off < 0
    /\ Len(last.sent) = 1
    /\ last.sent[1].error # nbdErrInval

\* C26: a write at logical offset L through the writer getWriterForReader
\* returns changes only the base-file bytes the reader maps the written
\* logical offsets to; for a reader whose extent list is empty it changes
\* no base-file byte; and every chain that is not an optional XTS layer
\* over an optional extent layer over a file is refused.
C26_WriterFollowsReader ==
    gwCall # NoCall =>
        /\ gwCall.err = "nil" <=> GwAccepted(gwCall.reader)
        /\ gwCall.err = "nil" =>
              GwChanged \subseteq {MapsTo(gwCall.reader, gwCall.off + i) :
                                      i \in 0..(Len(gwCall.p) - 1)} \ {-1}
        /\ gwCall.err = "nil" /\ GwEmptyList(gwCall.reader) => GwChanged = {}

\* A write through the writer for an ExtentReaderAt with no extents lands
\* in the base file.
C26_WriteLandsWithoutExtents ==
    /\ gwCall # NoCall
    /\ gwCall.reader = NewExtentReaderAt(OsFile, <<>>, 4)
    /\ gwCall.err = "nil"
    /\ gwCall.writer = RwFile
    /\ gwCall.off = 1
    /\ gwCall.werr = "nil"
    /\ GwChanged = {1, 2}

\* C25: the width of the FAT entries a volume's chains are read with, and
\* the end-of-chain sentinel, are those of the type the volume reports: a
\* volume reported as FAT32 reads 32-bit entries masked to 28 bits and ends
\* a chain at 0x0FFFFFF8 and above, also when it has fewer than 4085
\* clusters; FAT16 reads 16-bit entries (0xFFF8), FAT12 12-bit ones (0xFF8).
C25_EntryWidthMatchesType ==
    fsCall # NoCall /\ fsCall.op = "fat.next" =>
        /\ fsCall.typ = "FAT32" =>
              /\ fsCall.val = LeUint32Masked28(fsCall.fat, fsCall.cluster * 4)
              /\ fsCall.eof <=> fsCall.val >= eofFAT32
        /\ fsCall.typ = "FAT16" =>
              /\ fsCall.val = LeUint16(fsCall.fat, fsCall.cluster * 2)
              /\ fsCall.eof <=> fsCall.val >= eofFAT16
        /\ fsCall.typ = "FAT12" =>
              /\ fsCall.val < 4096
              /\ fsCall.eof <=> fsCall.val >= eofFAT12

\* A volume reported as FAT32 with fewer than 4085 clusters has an entry
\* read twelve bits wide.
C25_SmallFat32ReadAsFat12 ==
    /\ fsCall # NoCall
    /\ fsCall.op = "fat.next"
    /\ fsCall.typ = "FAT32"
    /\ fsCall.countOfClusters < fat12Limit
    /\ fsCall.fat = [j \in 1..FatLen |-> 255]
    /\ fsCall.cluster = 1
    /\ fsCall.val = 4095
    /\ fsCall.eof

\* C23: for a file whose inode has block pointers, a zero pointer at
\* logical block index k is a hole (no extent covers logical offset
\* k * blockSize), and a non-zero pointer at index j gives an extent that
\* maps logical offset j * blockSize to that block: holes never shift the
\* logical offsets of the blocks after them.
C23_HolesKeepLogicalOffsets ==
    (fsCall # NoCall /\ fsCall.op = "ext.blockPointers" /\ ~fsCall.err) =>
        \A k \in 0..((fsCall.fileSize + ExtBlockSize - 1) \div ExtBlockSize - 1) :
            LET ptr == PtrAt(fsCall.ino, fsCall.disk, k)
                covering == {i \in 1..Len(fsCall.extents) :
                                /\ fsCall.extents[i].Logical <= k * ExtBlockSize
                                /\ k * ExtBlockSize < fsCall.extents[i].Logical
                                                        + fsCall.extents[i].Length}
            IN  IF ptr = 0 THEN covering = {}
                ELSE \E i \in covering :
                        fsCall.extents[i].Physical + (k * ExtBlockSize - fsCall.extents[i].Logical)
                            = ptr * ExtBlockSize

\* A file of two blocks whose first pointer is zero: the second block is
\* given logical offset 0.
C23_BlockMovedIntoHole ==
    /\ fsCall # NoCall
    /\ fsCall.op = "ext.blockPointers"
    /\ fsCall.ino.direct = <<0, 2>>
    /\ fsCall.fileSize = 2 * ExtBlockSize
    /\ ~fsCall.err
    /\ fsCall.extents = <<Extent(0, 2 * ExtBlockSize, ExtBlockSize)>>

\* C30: the walk of an ext extent tree ends for every content of the image:
\* the calls of walkExtentTree are never nested deeper than the depth the
\* root header gives (one call for the root and one for each level below).
C30_WalkBoundedByRootDepth ==
    (fsCall # NoCall /\ fsCall.op = "ext.walk") =>
        Len(fsCall.stack) <= fsCall.root.depth + 1

\* An index block that names itself: the walk of a root of depth 1 is
\* nested as deep as it is followed, and has reported no extent.
C30_WalkInCycle ==
    /\ fsCall # NoCall
    /\ fsCall.op = "ext.walk"
    /\ fsCall.root = [magic |-> TRUE, depth |-> 1, entries |-> <<1>>]
    /\ fsCall.disk[1] = [magic |-> TRUE, depth |-> 1, entries |-> <<1>>]
    /\ fsCall.status = "running"
    /\ Len(fsCall.stack) = StackMax
    /\ fsCall.extents = 0

\* C24: when a sector of an NTFS record does not end in the record's
\* update sequence word, the operation that reads the record fails with a
\* corruption error: parsing a directory's index allocation never succeeds
\* with the entries of such a record left out.
C24_TornRecordFailsTheListing ==
    (fsCall # NoCall /\ fsCall.op = "ntfs.index") =>
        ((\E k \in 1..Len(fsCall.records) : TornRecord(fsCall.records[k])) => fsCall.err)

\* A directory of two index records, the first torn: the listing succeeds
\* with the entries of the second only.
C24_TornRecordLeftOut ==
    /\ fsCall # NoCall
    /\ fsCall.op = "ntfs.index"
    /\ Len(fsCall.records) = 2
    /\ TornRecord(fsCall.records[1])
    /\ fsCall.records[1].entries = <<"a">>
    /\ ~TornRecord(fsCall.records[2])
    /\ fsCall.records[2].entries = <<"b">>
    /\ ~fsCall.err
    /\ fsCall.entries = <<"b">>

\* C22: for every regular file of a FAT or ext file system, the bytes
\* streamed through the ExtentReaderAt built from FileExtents(path),
\* BaseReader() and the file size are the bytes read from Open(path) to
\* the end, also for a file whose cluster chain ends before its recorded
\* size and for an ext file with holes.
C22_StreamEqualsOpen ==
    (fsCall # NoCall /\ fsCall.op = "cat") => fsCall.streamed = fsCall.opened

\* A FAT file of three clusters by its size whose chain ends after the
\* first: Open gives one cluster, the stream three.
C22_ShortChainPadded ==
    /\ fsCall # NoCall
    /\ fsCall.op = "cat"
    /\ fsCall.fs = "fat"
    /\ fsCall.startCluster = 2
    /\ fsCall.entries[2] = 65535
    /\ fsCall.fileSize = 3 * SectorLen
    /\ Len(fsCall.opened) = SectorLen
    /\ Len(fsCall.streamed) = 3 * SectorLen
    /\ \A l \in (SectorLen + 1)..(3 * SectorLen) : fsCall.streamed[l] = 0

====
